---- MODULE Spec2Model ----
(***************************************************************************)
(* State-machine model of the sewa-motor backend (axum + sqlx/Postgres):   *)
(* the users, orders and motors tables and the HTTP handlers of            *)
(* routes/auth.rs, routes/orders.rs, routes/motor.rs and routes/profils.rs.*)
(*                                                                         *)
(* Text is modelled as follows.  Dates and times are sequences of one-     *)
(* character strings and are parsed/formatted character by character.      *)
(* An Authorization header is a record of its lexical segments (scheme,    *)
(* token prefix, remainder); a UUID text is a record naming the UUID it    *)
(* denotes and its textual form.  Other strings are TLA+ strings.          *)
(***************************************************************************)
EXTENDS Integers, Sequences, FiniteSets, TLC

VARIABLES
    users,       \* table users:  id -> row
    orders,      \* table orders: id -> row
    motors,      \* table motors: motor_id -> row
    motorSeq,    \* last value handed out by the motors.motor_id sequence
    usedIds,     \* UUIDs Uuid::new_v4 produced that were stored as a key
    clock,       \* storage clock <<date, time>> (CURRENT_DATE, CURRENT_TIME)
    resp,        \* status line of the response to the last handled request
    submitted,   \* motor_id -> CreateMotorRequest of a motor not updated since
    boot,        \* main's connection phase: position, attempt, pool, time slept
    tasks        \* requests in flight between two statements: task -> locals

vars == <<users, orders, motors, motorSeq, usedIds, clock, resp, submitted,
          boot, tasks>>

-----------------------------------------------------------------------------
(* Bounds of the model *)

\* UUIDs Uuid::new_v4 can hand out for users
MaxUsers == 2
\* UUIDs Uuid::new_v4 can hand out for orders
MaxOrders == 2
\* values the motors.motor_id sequence can hand out
MaxMotors == 2
\* CURRENT_DATE ranges over 0..MaxDay
MaxDay == 0
\* rows that users and orders together ever get, where both tables fill
MaxRows == 4

UserIds  == {<<"u", i>> : i \in 1..MaxUsers}
OrderIds == {<<"o", i>> : i \in 1..MaxOrders}

\* Uuid::new_v4(): a UUID that never was a key.  All UUIDs of a pool are
\* interchangeable, so the one of least index stands for any of them.
NewUuid(pool) ==
    CHOOSE id \in pool \ usedIds : \A o \in pool \ usedIds : id[2] <= o[2]

-----------------------------------------------------------------------------
(* Option / Result values *)

None      == [some |-> FALSE]
Some(x)   == [some |-> TRUE, v |-> x]
Ok(x)     == [ok |-> TRUE, v |-> x]
Err(e)    == [ok |-> FALSE, e |-> e]

(* HTTP status codes (axum::http::StatusCode), by name *)
ST_OK           == "200 OK"
ST_CREATED      == "201 Created"
ST_BAD_REQUEST  == "400 Bad Request"
ST_UNAUTHORIZED == "401 Unauthorized"
ST_NOT_FOUND    == "404 Not Found"
ST_CONFLICT     == "409 Conflict"
ST_INTERNAL     == "500 Internal Server Error"
ST_PANIC        == "panic"    \* the handler task panicked: no response

-----------------------------------------------------------------------------
(* chrono: parsing "%Y-%m-%d" and "%H:%M", and the serde (Debug) rendering  *)

Digits == {"0", "1", "2", "3", "4", "5", "6", "7", "8", "9"}
DigitVal == ("0" :> 0) @@ ("1" :> 1) @@ ("2" :> 2) @@ ("3" :> 3) @@ ("4" :> 4)
            @@ ("5" :> 5) @@ ("6" :> 6) @@ ("7" :> 7) @@ ("8" :> 8) @@ ("9" :> 9)
DigitChar == <<"0", "1", "2", "3", "4", "5", "6", "7", "8", "9">>

\* str::trim_start: the first position at or after p that holds no whitespace
RECURSIVE SkipWs(_, _)
SkipWs(s, p) ==
    IF p <= Len(s) /\ s[p] = " " THEN SkipWs(s, p + 1) ELSE p

\* the number of consecutive digits of s from p, at most max
RECURSIVE DigitCount(_, _, _)
DigitCount(s, p, max) ==
    IF max > 0 /\ p <= Len(s) /\ s[p] \in Digits
    THEN 1 + DigitCount(s, p + 1, max - 1)
    ELSE 0

\* the value of the n digits of s from p
RECURSIVE NumVal(_, _, _)
NumVal(s, p, n) ==
    IF n = 0 THEN 0 ELSE NumVal(s, p, n - 1) * 10 + DigitVal[s[p + n - 1]]

ScanFail == [ok |-> FALSE, pos |-> 0, val |-> 0]

\* format::parse, Item::Numeric: leading whitespace is skipped, then
\* scan::number(s, 1, width); a signed item (the year) with an explicit
\* sign takes any number of digits
ScanNumeric(s, pos, width, signed) ==
    LET p == SkipWs(s, pos) IN
    IF signed /\ p <= Len(s) /\ s[p] \in {"-", "+"}
    THEN LET n == DigitCount(s, p + 1, Len(s)) IN
         IF n < 1 THEN ScanFail
         ELSE [ok |-> TRUE, pos |-> p + 1 + n,
               val |-> IF s[p] = "-" THEN 0 - NumVal(s, p + 1, n)
                                     ELSE NumVal(s, p + 1, n)]
    ELSE LET n == DigitCount(s, p, width) IN
         IF n < 1 THEN ScanFail
         ELSE [ok |-> TRUE, pos |-> p + n, val |-> NumVal(s, p, n)]

\* format::parse, Item::Literal: the literal must be the next character
ScanLiteral(s, pos, c) ==
    IF pos <= Len(s) /\ s[pos] = c
    THEN [ok |-> TRUE, pos |-> pos + 1, val |-> 0]
    ELSE ScanFail

IsLeap(y) == (y % 4 = 0 /\ y % 100 # 0) \/ y % 400 = 0

DaysInMonth(y, m) ==
    IF m \in {4, 6, 9, 11} THEN 30
    ELSE IF m = 2 THEN (IF IsLeap(y) THEN 29 ELSE 28)
    ELSE 31

\* NaiveDate::from_ymd_opt
ValidDate(y, m, d) ==
    /\ m \in 1..12
    /\ d >= 1 /\ d <= DaysInMonth(y, m)

\* the element of a one-element set
The(S) == CHOOSE x \in S : TRUE

\* the items of the formats "%Y-%m-%d" and "%H:%M" (StrftimeItems)
Numeric(width, signed) == [num |-> TRUE, width |-> width, signed |-> signed, c |-> ""]
Literal(c) == [num |-> FALSE, width |-> 0, signed |-> FALSE, c |-> c]
DateItems == <<Numeric(4, TRUE), Literal("-"), Numeric(2, FALSE), Literal("-"),
               Numeric(2, FALSE)>>
TimeItems == <<Numeric(2, FALSE), Literal(":"), Numeric(2, FALSE)>>

\* format::parse on one item: the position after it and the numbers parsed
\* so far
Step(s, item, st) ==
    LET r == IF item.num THEN ScanNumeric(s, st.pos, item.width, item.signed)
             ELSE ScanLiteral(s, st.pos, item.c)
    IN  IF ~r.ok THEN [ok |-> FALSE, pos |-> 0, vals |-> <<>>]
        ELSE [ok |-> TRUE, pos |-> r.pos,
              vals |-> IF item.num THEN Append(st.vals, r.val) ELSE st.vals]

\* format::parse: the items in turn, stopping at the first that fails
RECURSIVE Scan(_, _, _)
Scan(s, items, st) ==
    IF items = <<>> \/ ~st.ok THEN st
    ELSE The({Scan(s, Tail(items), next) : next \in {Step(s, Head(items), st)}})

DateFail == [ok |-> FALSE, y |-> 0, m |-> 0, d |-> 0]

\* chrono::NaiveDate::parse_from_str(s, "%Y-%m-%d"): trailing input and
\* dates that do not exist are errors
ParseDate(s) ==
    The({IF r.ok /\ r.pos = Len(s) + 1 /\ ValidDate(r.vals[1], r.vals[2], r.vals[3])
         THEN [ok |-> TRUE, y |-> r.vals[1], m |-> r.vals[2], d |-> r.vals[3]]
         ELSE DateFail :
         r \in {Scan(s, DateItems, [ok |-> TRUE, pos |-> 1, vals |-> <<>>])}})

TimeFail == [ok |-> FALSE, h |-> 0, mi |-> 0, s |-> 0]

\* chrono::NaiveTime::parse_from_str(s, "%H:%M"); the seconds default to 0
ParseTime(s) ==
    The({IF r.ok /\ r.pos = Len(s) + 1 /\ r.vals[1] \in 0..23 /\ r.vals[2] \in 0..59
         THEN [ok |-> TRUE, h |-> r.vals[1], mi |-> r.vals[2], s |-> 0]
         ELSE TimeFail :
         r \in {Scan(s, TimeItems, [ok |-> TRUE, pos |-> 1, vals |-> <<>>])}})

\* "{:02}"
Pad2(n) == <<DigitChar[((n \div 10) % 10) + 1], DigitChar[(n % 10) + 1]>>

\* "{:04}"
Pad4(n) == Pad2(n \div 100) \o Pad2(n % 100)

\* serde Serialize of NaiveDate (its Debug form) for years 0..9999
FormatDate(d) == Pad4(d.y) \o <<"-">> \o Pad2(d.m) \o <<"-">> \o Pad2(d.d)

\* serde Serialize of NaiveTime (its Debug form), no fractional second
FormatTime(t) == Pad2(t.h) \o <<":">> \o Pad2(t.mi) \o <<":">> \o Pad2(t.s)

-----------------------------------------------------------------------------
(* Text of a UUID and the Authorization header *)

UuidForms == {"hyphenated", "simple", "upper"}

\* a text that denotes UUID id in the given form
UuidText(id, form) == [uuid |-> id, form |-> form]

\* a text that is no UUID
NotAUuid == [uuid |-> <<"x", 0>>, form |-> "invalid"]

\* Uuid::parse_str: hyphenated, simple and upper-case texts all parse
Uuid_parse_str(t) ==
    IF t.form \in UuidForms THEN Ok(t.uuid) ELSE Err("invalid uuid")

\* Uuid's Display: lower-case hyphenated
Uuid_to_string(id) == UuidText(id, "hyphenated")

\* an Authorization header value: visible ASCII or not, the scheme it
\* starts with, and the token after it as prefix and remainder
Header(ascii, scheme, prefix, rest) ==
    Some([ascii |-> ascii, scheme |-> scheme, prefix |-> prefix, rest |-> rest])

\* format!("dummy_token_for_{}", id) sent as "Bearer <token>"
BearerFor(id) == Header(TRUE, "Bearer ", "dummy_token_for_", Uuid_to_string(id))

\* the headers a request may carry
Headers ==
    {None}
    \cup {BearerFor(id) : id \in UserIds}
    \cup {Header(TRUE, "Bearer ", "dummy_token_for_", UuidText(<<"u", 1>>, "upper")),
          Header(FALSE, "Bearer ", "dummy_token_for_", Uuid_to_string(<<"u", 1>>)),
          Header(TRUE, "Basic ", "dummy_token_for_", Uuid_to_string(<<"u", 1>>)),
          Header(TRUE, "bearer ", "dummy_token_for_", Uuid_to_string(<<"u", 1>>)),
          Header(TRUE, "Bearer ", "token_for_", Uuid_to_string(<<"u", 1>>)),
          Header(TRUE, "Bearer ", "dummy_token_for_", NotAUuid)}

\* the headers the state machine sends: none, and the token of every UUID
\* a user may get
SentHeaders == {None} \cup {BearerFor(id) : id \in UserIds}

\* a mutated helper that skips the existence query
get_user_from_token_noquery(headers, usersT, dbOk) ==
    IF ~headers.some \/ ~headers.v.ascii \/ headers.v.scheme # "Bearer "
    THEN Err(ST_UNAUTHORIZED)
    ELSE IF headers.v.prefix # "dummy_token_for_" THEN Err(ST_UNAUTHORIZED)
    ELSE LET parsed == Uuid_parse_str(headers.v.rest) IN
         IF ~parsed.ok THEN Err(ST_UNAUTHORIZED) ELSE Ok(parsed.v)

\* get_user_from_token(&headers, &pool); dbOk: the SELECT succeeds
get_user_from_token(headers, usersT, dbOk) ==
    IF ~headers.some \/ ~headers.v.ascii \/ headers.v.scheme # "Bearer "
    THEN Err(ST_UNAUTHORIZED)
    ELSE IF headers.v.prefix # "dummy_token_for_" THEN Err(ST_UNAUTHORIZED)
    ELSE LET parsed == Uuid_parse_str(headers.v.rest) IN
         IF ~parsed.ok THEN Err(ST_UNAUTHORIZED)
         ELSE IF ~dbOk THEN Err(ST_INTERNAL)
         ELSE IF parsed.v \notin DOMAIN usersT THEN Err(ST_UNAUTHORIZED)
         ELSE Ok(parsed.v)

-----------------------------------------------------------------------------
(* JSON payload of POST /api/orders (serde_json::Value)                     *)

Str(chars) == [t |-> "str", v |-> chars]
Num        == [t |-> "num", v |-> <<>>]
Absent     == [t |-> "absent", v |-> <<>>]

\* payload.get(key).and_then(|v| v.as_str())
GetStr(payload, key) ==
    IF payload[key].t = "str" THEN Some(payload[key].v) ELSE None

D_2025_03_10 == <<"2", "0", "2", "5", "-", "0", "3", "-", "1", "0">>
D_2025_3_10  == <<"2", "0", "2", "5", "-", "3", "-", "1", "0">>
D_2025_03_12 == <<"2", "0", "2", "5", "-", "0", "3", "-", "1", "2">>
D_2024_02_29 == <<"2", "0", "2", "4", "-", "0", "2", "-", "2", "9">>
D_2025_02_30 == <<"2", "0", "2", "5", "-", "0", "2", "-", "3", "0">>
D_10_03_2025 == <<"1", "0", "/", "0", "3", "/", "2", "0", "2", "5">>
T_09_30      == <<"0", "9", ":", "3", "0">>
T_9_30       == <<"9", ":", "3", "0">>
T_17_00      == <<"1", "7", ":", "0", "0">>
T_24_00      == <<"2", "4", ":", "0", "0">>
T_09_30_00   == <<"0", "9", ":", "3", "0", ":", "0", "0">>

MandatoryFields ==
    <<"tanggalPeminjaman", "jamPeminjaman", "alamatPengantaran",
      "tanggalPengembalian", "jamPengembalian", "alamatPengembalian",
      "pilihCabang", "pilihMotor">>

Mandatory == {MandatoryFields[i] : i \in 1..Len(MandatoryFields)}

BasePayload ==
    [tanggalPeminjaman   |-> Str(D_2025_03_10),
     jamPeminjaman       |-> Str(T_09_30),
     alamatPengantaran   |-> Str(<<"Jl. Merdeka 1">>),
     tanggalPengembalian |-> Str(D_2025_03_12),
     jamPengembalian     |-> Str(T_17_00),
     alamatPengembalian  |-> Str(<<"Jl. Sudirman 2">>),
     pilihCabang         |-> Str(<<"Bandung">>),
     pilihMotor          |-> Str(<<"Honda Beat">>),
     bookingId           |-> Absent,
     motorPrice          |-> Absent,
     status              |-> Absent,
     tanggalBooking      |-> Absent,
     waktuBooking        |-> Absent]

\* a payload that also carries a booking reference and the keys
\* create_booking never reads
FullPayload ==
    [BasePayload EXCEPT !.bookingId = Str(<<"BWK", "7", "7">>),
                        !.status = Str(<<"confirmed">>),
                        !.tanggalBooking = Str(D_2025_03_10),
                        !.waktuBooking = Str(T_17_00)]

DateFields == {"tanggalPeminjaman", "tanggalPengembalian"}
TimeFields == {"jamPeminjaman", "jamPengembalian"}

\* the payloads a request may carry
Payloads ==
    {BasePayload, FullPayload,
     [BasePayload EXCEPT !.tanggalPeminjaman = Str(D_2025_3_10),
                         !.jamPeminjaman = Str(T_9_30)],
     [FullPayload EXCEPT !.tanggalPeminjaman = Str(D_2024_02_29),
                         !.motorPrice = Str(<<"Rp 75.000/hari">>)]}
    \cup {[BasePayload EXCEPT ![f] = Absent] : f \in Mandatory}
    \cup {[BasePayload EXCEPT ![f] = Num] : f \in {"pilihCabang", "jamPeminjaman"}}
    \cup {[BasePayload EXCEPT !.pilihCabang = Absent, !.pilihMotor = Absent],
          [BasePayload EXCEPT !.jamPeminjaman = Num, !.pilihCabang = Absent],
          [BasePayload EXCEPT !.pilihMotor = Absent,
                              !.tanggalPeminjaman = Str(D_10_03_2025)]}
    \cup {[BasePayload EXCEPT ![f] = Str(bad)] :
              f \in DateFields, bad \in {D_2025_02_30, D_10_03_2025}}
    \cup {[BasePayload EXCEPT ![f] = Str(bad)] :
              f \in TimeFields, bad \in {T_24_00, T_09_30_00}}
    \cup {[BasePayload EXCEPT !.tanggalPengembalian = Str(D_2025_02_30),
                              !.jamPeminjaman = Str(T_24_00)]}

\* the payloads the state machine sends
SentPayloads ==
    {BasePayload, FullPayload,
     [BasePayload EXCEPT !.pilihCabang = Absent],
     [BasePayload EXCEPT !.tanggalPengembalian = Str(D_2025_02_30)],
     [BasePayload EXCEPT !.jamPeminjaman = Str(T_09_30_00)]}

\* chrono::Utc::now().timestamp_millis() % 1000000, as the request sees it
MsMods == {42, 999999}

\* the one the state machine's requests see
SentMs == {42}

\* decimal digits of n >= 0 ("{}")
RECURSIVE Decimal(_)
Decimal(n) ==
    IF n < 10 THEN <<DigitChar[n + 1]>>
    ELSE Decimal(n \div 10) \o <<DigitChar[(n % 10) + 1]>>

\* a mutated extraction that never looks at the last mandatory field
RECURSIVE FirstMissing_skip_last(_, _)
FirstMissing_skip_last(payload, i) ==
    IF i > Len(MandatoryFields) - 1 THEN 0
    ELSE IF ~GetStr(payload, MandatoryFields[i]).some THEN i
    ELSE FirstMissing_skip_last(payload, i + 1)

\* the position of the first mandatory field from i on that is no string,
\* or 0: the order in which create_booking extracts the fields
RECURSIVE FirstMissing(_, _)
FirstMissing(payload, i) ==
    IF i > Len(MandatoryFields) THEN 0
    ELSE IF ~GetStr(payload, MandatoryFields[i]).some THEN i
    ELSE FirstMissing(payload, i + 1)

\* a mutated parsing step that checks the dates only
FirstInvalid_dates_only(payload) ==
    IF ~ParseDate(payload.tanggalPeminjaman.v).ok THEN "tanggalPeminjaman"
    ELSE IF ~ParseDate(payload.tanggalPengembalian.v).ok THEN "tanggalPengembalian"
    ELSE ""

\* the first field whose text does not parse, in the order create_booking
\* parses them, or "" when all four parse
FirstInvalid(payload) ==
    IF ~ParseDate(payload.tanggalPeminjaman.v).ok THEN "tanggalPeminjaman"
    ELSE IF ~ParseDate(payload.tanggalPengembalian.v).ok THEN "tanggalPengembalian"
    ELSE IF ~ParseTime(payload.jamPeminjaman.v).ok THEN "jamPeminjaman"
    ELSE IF ~ParseTime(payload.jamPengembalian.v).ok THEN "jamPengembalian"
    ELSE ""

\* an error response (status, {"error": message})
Error(op, status, message) ==
    [op |-> op, status |-> status, error |-> message]

\* a mutated INSERT that binds the payload's status
InsertedOrder_status_from_payload(user_id, payload, motor_price, now) ==
    [user_id              |-> user_id,
     tanggal_peminjaman   |-> ParseDate(payload.tanggalPeminjaman.v),
     jam_peminjaman       |-> ParseTime(payload.jamPeminjaman.v),
     alamat_pengantaran   |-> payload.alamatPengantaran.v,
     tanggal_pengembalian |-> ParseDate(payload.tanggalPengembalian.v),
     jam_pengembalian     |-> ParseTime(payload.jamPengembalian.v),
     alamat_pengembalian  |-> payload.alamatPengembalian.v,
     pilih_cabang         |-> payload.pilihCabang.v,
     pilih_motor          |-> payload.pilihMotor.v,
     motor_price          |-> motor_price,
     status               |-> IF GetStr(payload, "status").some
                              THEN payload.status.v ELSE <<"pending">>,
     tanggal_booking      |-> now[1],
     waktu_booking        |-> now[2]]

\* the row create_booking inserts for user_id at storage time now
InsertedOrder(user_id, payload, motor_price, now) ==
    [user_id              |-> user_id,
     tanggal_peminjaman   |-> ParseDate(payload.tanggalPeminjaman.v),
     jam_peminjaman       |-> ParseTime(payload.jamPeminjaman.v),
     alamat_pengantaran   |-> payload.alamatPengantaran.v,
     tanggal_pengembalian |-> ParseDate(payload.tanggalPengembalian.v),
     jam_pengembalian     |-> ParseTime(payload.jamPengembalian.v),
     alamat_pengembalian  |-> payload.alamatPengembalian.v,
     pilih_cabang         |-> payload.pilihCabang.v,
     pilih_motor          |-> payload.pilihMotor.v,
     motor_price          |-> motor_price,
     status               |-> <<"pending">>,
     tanggal_booking      |-> now[1],
     waktu_booking        |-> now[2]]

\* the extraction and parsing of the payload in create_booking: the error
\* response of the first field that fails, or Ok
validate_payload(payload) ==
    LET miss == FirstMissing(payload, 1)
        bad == IF miss = 0 THEN FirstInvalid(payload) ELSE ""
    IN  IF miss # 0
        THEN Err(Error("create_booking", ST_BAD_REQUEST,
                       <<"Missing ", MandatoryFields[miss]>>))
        ELSE IF bad # ""
        THEN Err(Error("create_booking", ST_BAD_REQUEST,
                       <<"Invalid ", bad, " format">>))
        ELSE Ok(payload)

\* a mutated INSERT that stores the booking reference with the row
insert_booking_keeps_reference(user_id, payload, ordersT, now, dbOk, order_id, ms) ==
    LET booking_id == IF GetStr(payload, "bookingId").some
                      THEN payload.bookingId.v
                      ELSE <<"BWK">> \o Decimal(ms % 1000000)
        motor_price == IF GetStr(payload, "motorPrice").some
                       THEN payload.motorPrice.v
                       ELSE <<"Rp 50.000/hari">>
    IN  IF ~dbOk
        THEN [resp |-> Error("create_booking", ST_INTERNAL,
                             <<"Database error: ", "sqlx::Error">>),
              orders |-> ordersT, gen |-> TRUE]
        ELSE [resp |-> [op |-> "create_booking", status |-> ST_OK, error |-> <<>>,
                        body |->
                        [booking_id |-> booking_id,
                         order_id |-> order_id,
                         data |-> [id |-> order_id,
                                   bookingId |-> booking_id,
                                   tanggalPeminjaman |-> payload.tanggalPeminjaman.v,
                                   jamPeminjaman |-> payload.jamPeminjaman.v,
                                   alamatPengantaran |-> payload.alamatPengantaran.v,
                                   tanggalPengembalian |-> payload.tanggalPengembalian.v,
                                   jamPengembalian |-> payload.jamPengembalian.v,
                                   alamatPengembalian |-> payload.alamatPengembalian.v,
                                   pilihCabang |-> payload.pilihCabang.v,
                                   pilihMotor |-> payload.pilihMotor.v,
                                   motorPrice |-> motor_price,
                                   status |-> <<"pending">>]]],
              orders |-> (order_id :> ([booking_id |-> booking_id]
                                       @@ InsertedOrder(user_id, payload, motor_price, now)))
                         @@ ordersT,
              gen |-> TRUE]

\* the INSERT of create_booking and the response built from its result
insert_booking(user_id, payload, ordersT, now, dbOk, order_id, ms) ==
    LET booking_id == IF GetStr(payload, "bookingId").some
                      THEN payload.bookingId.v
                      ELSE <<"BWK">> \o Decimal(ms % 1000000)
        motor_price == IF GetStr(payload, "motorPrice").some
                       THEN payload.motorPrice.v
                       ELSE <<"Rp 50.000/hari">>
    IN  IF ~dbOk
        THEN [resp |-> Error("create_booking", ST_INTERNAL,
                             <<"Database error: ", "sqlx::Error">>),
              orders |-> ordersT, gen |-> TRUE]
        ELSE [resp |-> [op |-> "create_booking", status |-> ST_OK, error |-> <<>>,
                        body |->
                        [booking_id |-> booking_id,
                         order_id |-> order_id,
                         data |-> [id |-> order_id,
                                   bookingId |-> booking_id,
                                   tanggalPeminjaman |-> payload.tanggalPeminjaman.v,
                                   jamPeminjaman |-> payload.jamPeminjaman.v,
                                   alamatPengantaran |-> payload.alamatPengantaran.v,
                                   tanggalPengembalian |-> payload.tanggalPengembalian.v,
                                   jamPengembalian |-> payload.jamPengembalian.v,
                                   alamatPengembalian |-> payload.alamatPengembalian.v,
                                   pilihCabang |-> payload.pilihCabang.v,
                                   pilihMotor |-> payload.pilihMotor.v,
                                   motorPrice |-> motor_price,
                                   status |-> <<"pending">>]]],
              orders |-> (order_id :> InsertedOrder(user_id, payload, motor_price, now))
                         @@ ordersT,
              gen |-> TRUE]

\* a mutated handler that examines the payload before the identity
create_booking_payload_first(headers, payload, usersT, ordersT, now, fail, order_id, ms) ==
    LET auth == get_user_from_token(headers, usersT, fail # 1)
        valid == validate_payload(payload)
    IN  IF ~valid.ok
        THEN [resp |-> valid.e, orders |-> ordersT, gen |-> FALSE]
        ELSE IF ~auth.ok
        THEN [resp |-> Error("create_booking", auth.e, <<"Authentication required">>),
              orders |-> ordersT, gen |-> FALSE]
        ELSE insert_booking(auth.v, payload, ordersT, now, fail # 2, order_id, ms)

\* the foreign key orders.user_id -> users.id admits the row
FkHolds(user_id, usersT) == user_id \in DOMAIN usersT

\* a mutated handler that answers a refused INSERT as a failed authentication
insert_booking_at_unauthorized(user_id, payload, usersT, ordersT, now, dbOk, order_id, ms) ==
    IF FkHolds(user_id, usersT)
    THEN insert_booking(user_id, payload, ordersT, now, dbOk, order_id, ms)
    ELSE [resp |-> Error("create_booking", ST_UNAUTHORIZED, <<"Authentication required">>),
          orders |-> ordersT, gen |-> TRUE]

\* the INSERT of create_booking and its response, against the users table
\* of the moment: storage refuses an owner that is no stored user, and the
\* handler answers that like every other error of the INSERT
insert_booking_at(user_id, payload, usersT, ordersT, now, dbOk, order_id, ms) ==
    IF FkHolds(user_id, usersT)
    THEN insert_booking(user_id, payload, ordersT, now, dbOk, order_id, ms)
    ELSE [resp |-> Error("create_booking", ST_INTERNAL,
                         <<"Database error: ", "violates foreign key constraint">>),
          orders |-> ordersT, gen |-> TRUE]

\* create_booking(headers, pool, payload).  fail: the statement that fails
\* (0 none, 1 the identity query, 2 the INSERT); order_id: Uuid::new_v4();
\* ms: the millisecond clock modulo 1000000.  Yields the response, the
\* orders table afterwards and whether new_v4 was reached.
create_booking(headers, payload, usersT, ordersT, now, fail, order_id, ms) ==
    LET auth == get_user_from_token(headers, usersT, fail # 1)
        valid == validate_payload(payload)
    IN  IF ~auth.ok
        THEN [resp |-> Error("create_booking", auth.e, <<"Authentication required">>),
              orders |-> ordersT, gen |-> FALSE]
        ELSE IF ~valid.ok
        THEN [resp |-> valid.e, orders |-> ordersT, gen |-> FALSE]
        ELSE insert_booking(auth.v, payload, ordersT, now, fail # 2, order_id, ms)

\* the path segment :id of /api/orders/:id
OrderPaths ==
    {Uuid_to_string(id) : id \in OrderIds}
    \cup {UuidText(<<"o", 1>>, "upper"), NotAUuid}

\* get_booking(pool, Path(booking_id)); dbOk: the SELECT succeeds
get_booking(booking_id, ordersT, dbOk) ==
    LET order_uuid == Uuid_parse_str(booking_id) IN
    IF ~order_uuid.ok
    THEN Error("get_booking", ST_BAD_REQUEST, <<"Invalid booking ID">>)
    ELSE IF ~dbOk
    THEN Error("get_booking", ST_INTERNAL, <<"Database error">>)
    ELSE IF order_uuid.v \notin DOMAIN ordersT
    THEN Error("get_booking", ST_NOT_FOUND, <<"Booking not found">>)
    ELSE LET order == ordersT[order_uuid.v] IN
         [op |-> "get_booking", status |-> ST_OK, error |-> <<>>, body |->
         [id |-> order_uuid.v,
          user_id |-> order.user_id,
          bookingId |-> booking_id,
          tanggalPeminjaman |-> FormatDate(order.tanggal_peminjaman),
          jamPeminjaman |-> FormatTime(order.jam_peminjaman),
          alamatPengantaran |-> order.alamat_pengantaran,
          tanggalPengembalian |-> FormatDate(order.tanggal_pengembalian),
          jamPengembalian |-> FormatTime(order.jam_pengembalian),
          alamatPengembalian |-> order.alamat_pengembalian,
          pilihCabang |-> order.pilih_cabang,
          pilihMotor |-> order.pilih_motor,
          motorPrice |-> order.motor_price,
          status |-> order.status,
          tanggalBooking |-> order.tanggal_booking,
          waktuBooking |-> order.waktu_booking]]

\* the payloads of PUT /api/orders/:id: the value under "status"
StatusValues == {Absent, Num, Str(<<"confirmed">>), Str(<<"pending">>)}

\* a mutated handler that leaves the status alone when the payload has none
update_booking_keeps_status(booking_id, statusValue, ordersT, dbOk) ==
    LET order_uuid == Uuid_parse_str(booking_id) IN
    IF ~order_uuid.ok
    THEN [resp |-> Error("update_booking", ST_BAD_REQUEST, <<"Invalid booking ID">>),
          orders |-> ordersT]
    ELSE IF ~dbOk
    THEN [resp |-> Error("update_booking", ST_INTERNAL, <<"Database error">>),
          orders |-> ordersT]
    ELSE IF order_uuid.v \notin DOMAIN ordersT
    THEN [resp |-> Error("update_booking", ST_NOT_FOUND, <<"Booking not found">>),
          orders |-> ordersT]
    ELSE [resp |-> [op |-> "update_booking", status |-> ST_OK, error |-> <<>>],
          orders |-> [ordersT EXCEPT ![order_uuid.v].status =
                         IF statusValue.t = "str" THEN statusValue.v ELSE @]]

\* update_booking(pool, Path(booking_id), payload); dbOk: the UPDATE succeeds
update_booking(booking_id, statusValue, ordersT, dbOk) ==
    LET order_uuid == Uuid_parse_str(booking_id)
        status == IF statusValue.t = "str" THEN statusValue.v ELSE <<"pending">>
    IN  IF ~order_uuid.ok
        THEN [resp |-> Error("update_booking", ST_BAD_REQUEST, <<"Invalid booking ID">>),
              orders |-> ordersT]
        ELSE IF ~dbOk
        THEN [resp |-> Error("update_booking", ST_INTERNAL, <<"Database error">>),
              orders |-> ordersT]
        ELSE IF order_uuid.v \notin DOMAIN ordersT
        THEN [resp |-> Error("update_booking", ST_NOT_FOUND, <<"Booking not found">>),
              orders |-> ordersT]
        ELSE [resp |-> [op |-> "update_booking", status |-> ST_OK, error |-> <<>>],
              orders |-> [ordersT EXCEPT ![order_uuid.v].status = status]]

\* a table without the rows keyed by gone
Without(table, gone) == [k \in DOMAIN table \ gone |-> table[k]]

\* delete_booking(pool, Path(booking_id)); dbOk: the DELETE succeeds
delete_booking(booking_id, ordersT, dbOk) ==
    LET order_uuid == Uuid_parse_str(booking_id) IN
    IF ~order_uuid.ok
    THEN [resp |-> Error("delete_booking", ST_BAD_REQUEST, <<"Invalid booking ID">>),
          orders |-> ordersT]
    ELSE IF ~dbOk
    THEN [resp |-> Error("delete_booking", ST_INTERNAL, <<"Database error">>),
          orders |-> ordersT]
    ELSE IF order_uuid.v \notin DOMAIN ordersT
    THEN [resp |-> Error("delete_booking", ST_NOT_FOUND, <<"Booking not found">>),
          orders |-> ordersT]
    ELSE [resp |-> [op |-> "delete_booking", status |-> ST_OK, error |-> <<>>],
          orders |-> Without(ordersT, {order_uuid.v})]

\* the orders in which storage may return rows of equal sort key: a rank
\* for every order UUID
TieBreaks ==
    {t \in [OrderIds -> 1..Cardinality(OrderIds)] :
        \A a, b \in OrderIds : a # b => t[a] # t[b]}

\* the tie-break the state machine's requests meet: by index, or reversed
SentTieBreaks ==
    {t \in TieBreaks :
        \/ (\A a \in OrderIds : t[a] = a[2])
        \/ (\A b \in OrderIds : t[b] = Cardinality(OrderIds) + 1 - b[2])}

\* ORDER BY tanggal_booking DESC, waktu_booking DESC: row a comes before b
Before(a, b, ordersT, tie) ==
    \/ ordersT[a].tanggal_booking > ordersT[b].tanggal_booking
    \/ /\ ordersT[a].tanggal_booking = ordersT[b].tanggal_booking
       /\ ordersT[a].waktu_booking > ordersT[b].waktu_booking
    \/ /\ ordersT[a].tanggal_booking = ordersT[b].tanggal_booking
       /\ ordersT[a].waktu_booking = ordersT[b].waktu_booking
       /\ tie[a] < tie[b]

\* the rows ids as the SELECT ... ORDER BY returns them
Sorted(ids, ordersT, tie) ==
    CHOOSE s \in [1..Cardinality(ids) -> ids] :
        \A i, j \in DOMAIN s : i < j => Before(s[i], s[j], ordersT, tie)

\* the JSON object list_bookings and list_all_bookings build from a row
BookingJson(id, order) ==
    [id |-> id,
     user_id |-> order.user_id,
     bookingId |-> [prefix |-> "BWK", take |-> 6, of |-> Uuid_to_string(id)],
     tanggalPeminjaman |-> FormatDate(order.tanggal_peminjaman),
     jamPeminjaman |-> FormatTime(order.jam_peminjaman),
     alamatPengantaran |-> order.alamat_pengantaran,
     tanggalPengembalian |-> FormatDate(order.tanggal_pengembalian),
     jamPengembalian |-> FormatTime(order.jam_pengembalian),
     alamatPengembalian |-> order.alamat_pengembalian,
     pilihCabang |-> order.pilih_cabang,
     pilihMotor |-> order.pilih_motor,
     motorPrice |-> order.motor_price,
     status |-> order.status,
     tanggalBooking |-> order.tanggal_booking,
     waktuBooking |-> order.waktu_booking]

\* a mutated query that drops the WHERE clause
OwnRowsNoFilter(user_id, ordersT) == DOMAIN ordersT

\* the rows of SELECT ... FROM orders WHERE user_id = $1
OwnRows(user_id, ordersT) == {id \in DOMAIN ordersT : ordersT[id].user_id = user_id}

\* list_bookings(headers, pool).  fail: 0 none, 1 the identity query,
\* 2 the SELECT; tie: the order storage gives rows of equal sort key
list_bookings(headers, usersT, ordersT, fail, tie) ==
    LET auth == get_user_from_token(headers, usersT, fail # 1) IN
    IF ~auth.ok
    THEN Error("list_bookings", auth.e, <<"Authentication required">>)
    ELSE IF fail = 2
    THEN Error("list_bookings", ST_INTERNAL, <<"Database error">>)
    ELSE LET arr == Sorted(OwnRows(auth.v, ordersT), ordersT, tie) IN
         [op |-> "list_bookings", status |-> ST_OK, error |-> <<>>, body |->
          [data |-> [i \in DOMAIN arr |-> BookingJson(arr[i], ordersT[arr[i]])],
           total |-> Len(arr),
           user_id |-> auth.v]]

\* the rows of SELECT ... FROM orders o JOIN users u ON o.user_id = u.id
JoinedRows(usersT, ordersT) ==
    {id \in DOMAIN ordersT : ordersT[id].user_id \in DOMAIN usersT}

\* list_all_bookings(pool): no headers are read
list_all_bookings(usersT, ordersT, dbOk, tie) ==
    IF ~dbOk
    THEN Error("list_all_bookings", ST_INTERNAL, <<"Database error">>)
    ELSE LET arr == Sorted(JoinedRows(usersT, ordersT), ordersT, tie) IN
         [op |-> "list_all_bookings", status |-> ST_OK, error |-> <<>>, body |->
          [data |-> [i \in DOMAIN arr |->
                        [row |-> BookingJson(arr[i], ordersT[arr[i]]),
                         username |-> usersT[ordersT[arr[i]].user_id].username]],
           total |-> Len(arr)]]

\* a mutated route that lets only callers with a resolved identity through
orders_all_route_protected(headers, usersT, ordersT, dbOk, tie) ==
    IF get_user_from_token(headers, usersT, TRUE).ok
    THEN list_all_bookings(usersT, ordersT, dbOk, tie)
    ELSE Error("list_all_bookings", ST_UNAUTHORIZED, <<"Authentication required">>)

\* .route("/api/orders/all", get(list_all_bookings)): the request's headers
\* reach no extractor of the handler, and no layer of the router reads them
orders_all_route(headers, usersT, ordersT, dbOk, tie) ==
    list_all_bookings(usersT, ordersT, dbOk, tie)

-----------------------------------------------------------------------------
(* users: POST /api/register and DELETE /api/profils/:id                    *)

\* names and usernames, as sequences of characters
N_Budi_S == <<"B", "u", "d", "i", " ", "S">>
N_Bu_Di  == <<"B", "u", " ", "D", "i">>
N_Ani_W  == <<"A", "n", "i", " ", "W">>
N_Citra  == <<"C", "i", "t", "r", "a">>
U_budi   == <<"b", "u", "d", "i">>
U_Budi   == <<"B", "u", "d", "i">>
U_ani    == <<"a", "n", "i">>

\* bodies of POST /api/register (RegisterRequest)
RegisterRequests ==
    {[full_name |-> N_Budi_S, username |-> U_budi, email |-> "budi@mail.id",
      phone |-> "0811", password |-> "rahasia"],
     [full_name |-> N_Ani_W, username |-> U_ani, email |-> "ani@mail.id",
      phone |-> "0822", password |-> "sandi"]}

\* the uniqueness constraints of table users on username and on email
UniqueViolation(usersT, row) ==
    \E id \in DOMAIN usersT :
        usersT[id].username = row.username \/ usersT[id].email = row.email

\* register(pool, payload).  id: Uuid::new_v4(); dbOk: no storage failure
\* other than a constraint violation.  Every sqlx error maps to CONFLICT.
register(payload, usersT, id, dbOk) ==
    LET row == [full_name |-> payload.full_name,
                username |-> payload.username,
                email |-> payload.email,
                phone |-> payload.phone,
                password_hash |-> payload.password]
    IN  IF ~dbOk \/ UniqueViolation(usersT, row)
        THEN [resp |-> Error("register", ST_CONFLICT, <<"sqlx::Error">>),
              users |-> usersT]
        ELSE [resp |-> [op |-> "register", status |-> ST_CREATED, error |-> <<>>],
              users |-> (id :> row) @@ usersT]

\* the path segment :id of /api/profils/:id
UserPaths == {Uuid_to_string(id) : id \in UserIds} \cup {NotAUuid}

\* what the foreign key orders.user_id -> users.id does when a referenced
\* user is deleted
FkOnDelete == {"CASCADE", "RESTRICT"}

\* a mutated handler that deletes the user and leaves its orders behind
delete_profil_orphans(headers, id, usersT, ordersT, fail, fk) ==
    LET auth == get_user_from_token(headers, usersT, fail # 1)
        user_id == Uuid_parse_str(id)
    IN  IF auth.ok /\ user_id.ok /\ fail # 2 /\ user_id.v \in DOMAIN usersT
        THEN [resp |-> [op |-> "delete_profil", status |-> ST_OK, error |-> <<>>],
              users |-> Without(usersT, {user_id.v}), orders |-> ordersT]
        ELSE [resp |-> Error("delete_profil", ST_BAD_REQUEST, <<"Invalid ID format">>),
              users |-> usersT, orders |-> ordersT]

\* delete_profil(pool, headers, Path(id)).  fail: 0 none, 1 the identity
\* query, 2 the DELETE; fk: the foreign key's ON DELETE action
delete_profil(headers, id, usersT, ordersT, fail, fk) ==
    LET auth == get_user_from_token(headers, usersT, fail # 1)
        user_id == Uuid_parse_str(id)
        same(st, msg) == [resp |-> Error("delete_profil", st, msg),
                          users |-> usersT, orders |-> ordersT]
    IN  IF ~auth.ok THEN same(auth.e, <<"Authentication required">>)
        ELSE IF ~user_id.ok THEN same(ST_BAD_REQUEST, <<"Invalid ID format">>)
        ELSE IF fail = 2 THEN same(ST_INTERNAL, <<"Failed to delete profil">>)
        ELSE IF user_id.v \notin DOMAIN usersT
        THEN same(ST_NOT_FOUND, <<"Profil not found">>)
        ELSE IF OwnRows(user_id.v, ordersT) # {} /\ fk = "RESTRICT"
        THEN same(ST_INTERNAL, <<"Failed to delete profil">>)
        ELSE [resp |-> [op |-> "delete_profil", status |-> ST_OK, error |-> <<>>],
              users |-> Without(usersT, {user_id.v}),
              orders |-> Without(ordersT, OwnRows(user_id.v, ordersT))]

-----------------------------------------------------------------------------
(* profils: /api/profils, and POST /api/login                               *)

UpperCase == <<"A", "B", "C", "D", "I", "N", "S", "U", "W">>
LowerCase == <<"a", "b", "c", "d", "i", "n", "s", "u", "w">>

\* char::to_lowercase on the letters names are made of
ToLower(c) ==
    IF \E i \in DOMAIN UpperCase : UpperCase[i] = c
    THEN LowerCase[CHOOSE i \in DOMAIN UpperCase : UpperCase[i] = c]
    ELSE c

\* request.nama.to_lowercase().replace(" ", "")
RECURSIVE DerivedUsername(_)
DerivedUsername(nama) ==
    IF nama = <<>> THEN <<>>
    ELSE IF Head(nama) = " " THEN DerivedUsername(Tail(nama))
    ELSE <<ToLower(Head(nama))>> \o DerivedUsername(Tail(nama))

\* bodies of POST /api/profils (CreateProfilRequest)
CreateProfilRequests ==
    [user_id : {None, Some(7)},
     nama : {N_Bu_Di, N_Citra},
     email : {"budi@mail.id", "citra@mail.id"},
     no_hp : {"0833"}]

\* the bodies the state machine sends
SentCreateProfilRequests ==
    {q \in CreateProfilRequests :
        q.user_id = None /\ (q.nama = N_Citra <=> q.email = "citra@mail.id")}

\* the ProfilResponse built from a users row, without its timestamps
ProfilOf(id, row, username) ==
    [id |-> Uuid_to_string(id), nama |-> row.full_name, email |-> row.email,
     no_hp |-> row.phone, username |-> username]

\* a mutated INSERT that stores the name as username
NewUserRow_name_as_username(request) ==
    [full_name |-> request.nama,
     username |-> request.nama,
     email |-> request.email,
     phone |-> request.no_hp,
     password_hash |-> "password123"]

\* the row create_profil inserts for an id that is no user yet
NewUserRow(request) ==
    [full_name |-> request.nama,
     username |-> DerivedUsername(request.nama),
     email |-> request.email,
     phone |-> request.no_hp,
     password_hash |-> "password123"]

\* a mutated handler that rejects a request whose identity does not resolve
create_profil_auth_required(headers, request, usersT, fail, fresh) ==
    [resp |-> Error("create_profil",
                    IF get_user_from_token(headers, usersT, fail # 1).ok
                    THEN ST_INTERNAL ELSE ST_UNAUTHORIZED,
                    <<"Authentication required">>),
     users |-> usersT]

\* the user_id create_profil works with: both branches of the test on the
\* body's user_id take the token's identity, or a new id when there is none
ChosenUserId(request, auth, fresh) ==
    IF request.user_id # None
    THEN IF auth.ok THEN auth.v ELSE fresh
    ELSE IF auth.ok THEN auth.v ELSE fresh

\* create_profil(pool, headers, request).  fail: 0 none, 1 the identity
\* query, 2 the existence SELECT, 3 the UPDATE or INSERT; fresh:
\* Uuid::new_v4(), used when the identity does not resolve
create_profil(headers, request, usersT, fail, fresh) ==
    LET auth == get_user_from_token(headers, usersT, fail # 1)
        user_id == ChosenUserId(request, auth, fresh)
        row == IF user_id \in DOMAIN usersT
               THEN [usersT[user_id] EXCEPT !.full_name = request.nama,
                                            !.email = request.email,
                                            !.phone = request.no_hp]
               ELSE NewUserRow(request)
    IN  IF fail = 2
        THEN [resp |-> Error("create_profil", ST_INTERNAL, <<"Database error">>),
              users |-> usersT]
        ELSE IF fail = 3 \/ UniqueViolation(Without(usersT, {user_id}), row)
        THEN [resp |-> Error("create_profil", ST_INTERNAL, <<"Failed to save profil">>),
              users |-> usersT]
        ELSE [resp |-> [op |-> "create_profil", status |-> ST_OK, error |-> <<>>,
                        body |-> ProfilOf(user_id, row, None)],
              users |-> (user_id :> row) @@ Without(usersT, {user_id})]

\* bodies of PUT /api/profils/:id (UpdateProfilRequest)
UpdateProfilRequests ==
    [nama : {None, Some(N_Citra)},
     email : {None, Some("baru@mail.id"), Some("ani@mail.id")},
     no_hp : {None, Some("0899")}]

\* the bodies the state machine sends
SentUpdateProfilRequests ==
    {q \in UpdateProfilRequests :
        q.no_hp = None /\ (q.nama = None \/ q.email = None)}

\* a mutated merge that writes the empty string for a field left out
MergedProfil_blanks(current, request) ==
    [current EXCEPT
        !.full_name = IF request.nama.some THEN request.nama.v ELSE <<>>,
        !.email = IF request.email.some THEN request.email.v ELSE "",
        !.phone = IF request.no_hp.some THEN request.no_hp.v ELSE ""]

\* the row update_profil writes: supplied values, else the current ones
MergedProfil(current, request) ==
    [current EXCEPT
        !.full_name = IF request.nama.some THEN request.nama.v ELSE @,
        !.email = IF request.email.some THEN request.email.v ELSE @,
        !.phone = IF request.no_hp.some THEN request.no_hp.v ELSE @]

\* the UPDATE of update_profil and its response: full_name, email and phone
\* are set to the supplied values or else to those of current, the row the
\* SELECT returned; no row of that id, or a refused write, answers 500
update_profil_write(user_id, request, current, usersT, fail) ==
    LET merged == MergedProfil(current, request)
        row == [usersT[user_id] EXCEPT !.full_name = merged.full_name,
                                       !.email = merged.email,
                                       !.phone = merged.phone]
    IN  IF fail = 3 \/ user_id \notin DOMAIN usersT
        THEN [resp |-> Error("update_profil", ST_INTERNAL, <<"Failed to update profil">>),
              users |-> usersT]
        ELSE IF UniqueViolation(Without(usersT, {user_id}), row)
        THEN [resp |-> Error("update_profil", ST_INTERNAL, <<"Failed to update profil">>),
              users |-> usersT]
        ELSE [resp |-> [op |-> "update_profil", status |-> ST_OK, error |-> <<>>,
                        body |-> ProfilOf(user_id, row, None)],
              users |-> [usersT EXCEPT ![user_id] = row]]

\* update_profil(pool, headers, Path(id), request).  fail: 0 none, 1 the
\* identity query, 2 the SELECT, 3 the UPDATE
update_profil(headers, id, request, usersT, fail) ==
    LET auth == get_user_from_token(headers, usersT, fail # 1)
        user_id == Uuid_parse_str(id)
        same(st, msg) == [resp |-> Error("update_profil", st, msg), users |-> usersT]
    IN  IF ~auth.ok THEN same(auth.e, <<"Authentication required">>)
        ELSE IF ~user_id.ok THEN same(ST_BAD_REQUEST, <<"Invalid ID format">>)
        ELSE IF fail = 2 THEN same(ST_INTERNAL, <<"Database error">>)
        ELSE IF user_id.v \notin DOMAIN usersT
        THEN same(ST_NOT_FOUND, <<"User not found">>)
        ELSE update_profil_write(user_id.v, request, usersT[user_id.v], usersT, fail)

\* get_my_profil(pool, headers).  fail: 0 none, 1 the identity query, 2 the
\* SELECT
get_my_profil(headers, usersT, fail) ==
    LET auth == get_user_from_token(headers, usersT, fail # 1) IN
    IF ~auth.ok THEN Error("get_my_profil", auth.e, <<"Authentication required">>)
    ELSE IF fail = 2 THEN Error("get_my_profil", ST_INTERNAL, <<"Database error">>)
    ELSE IF auth.v \notin DOMAIN usersT
    THEN Error("get_my_profil", ST_NOT_FOUND, <<"User not found">>)
    ELSE [op |-> "get_my_profil", status |-> ST_OK, error |-> <<>>,
          body |-> ProfilOf(auth.v, usersT[auth.v], Some(usersT[auth.v].username))]

\* the path segment "default-id"
DefaultId == [uuid |-> <<"x", 0>>, form |-> "default-id"]

\* the :id and :user_id segments of /api/profils paths
ProfilPaths == UserPaths \cup {DefaultId}

\* a mutated lookup that serves only the caller's own row
ProfilLookup_own_only(op, what, missing, headers, id, usersT, fail) ==
    LET auth == get_user_from_token(headers, usersT, fail # 1)
        user_id == Uuid_parse_str(id)
    IN  IF ~auth.ok THEN Error(op, auth.e, <<"Authentication required">>)
        ELSE IF ~user_id.ok \/ user_id.v # auth.v
        THEN Error(op, ST_BAD_REQUEST, <<what>>)
        ELSE [op |-> op, status |-> ST_OK, error |-> <<>>,
              body |-> ProfilOf(user_id.v, usersT[user_id.v],
                                Some(usersT[user_id.v].username))]

\* the body get_profil and get_profil_by_user_id share: authenticate, refuse
\* "default-id", parse the id, SELECT the row
ProfilLookup(op, what, missing, headers, id, usersT, fail) ==
    LET auth == get_user_from_token(headers, usersT, fail # 1)
        user_id == Uuid_parse_str(id)
    IN  IF ~auth.ok THEN Error(op, auth.e, <<"Authentication required">>)
        ELSE IF id = DefaultId
        THEN Error(op, ST_BAD_REQUEST, <<what, ". Please provide a valid UUID.">>)
        ELSE IF ~user_id.ok THEN Error(op, ST_BAD_REQUEST, <<what, ": ", user_id.e>>)
        ELSE IF fail = 2 THEN Error(op, ST_INTERNAL, <<"Database error">>)
        ELSE IF user_id.v \notin DOMAIN usersT
        THEN Error(op, ST_NOT_FOUND, <<missing>>)
        ELSE [op |-> op, status |-> ST_OK, error |-> <<>>,
              body |-> ProfilOf(user_id.v, usersT[user_id.v],
                                Some(usersT[user_id.v].username))]

\* get_profil_by_user_id(pool, headers, Path(user_id))
get_profil_by_user_id(headers, user_id, usersT, fail) ==
    ProfilLookup("get_profil_by_user_id", "Invalid user ID format", "User not found",
                 headers, user_id, usersT, fail)

\* get_profil(pool, headers, Path(id))
get_profil(headers, id, usersT, fail) ==
    ProfilLookup("get_profil", "Invalid profil ID format", "Profil not found",
                 headers, id, usersT, fail)

\* the rows SELECT ... LIMIT 50 returns
Limit50(ids) ==
    IF Cardinality(ids) <= 50 THEN ids
    ELSE CHOOSE S \in SUBSET ids : Cardinality(S) = 50

\* list_profils(pool, headers): the profiles as a set, and their number.
\* fail: 0 none, 1 the identity query, 2 the SELECT
list_profils(headers, usersT, fail) ==
    LET auth == get_user_from_token(headers, usersT, fail # 1) IN
    IF ~auth.ok THEN Error("list_profils", auth.e, <<"Authentication required">>)
    ELSE IF fail = 2 THEN Error("list_profils", ST_INTERNAL, <<"Database error">>)
    ELSE [op |-> "list_profils", status |-> ST_OK, error |-> <<>>,
          body |-> [profils |-> {ProfilOf(id, usersT[id], None) :
                                    id \in Limit50(DOMAIN usersT)},
                    total |-> Cardinality(Limit50(DOMAIN usersT))]]

\* bodies of POST /api/login (LoginRequest)
LoginRequests ==
    [username : {U_budi, U_Budi, U_ani, <<"b", "u", "d", "i", " ">>},
     password : {"rahasia", "Rahasia", "sandi", "password123", ""}]

\* the bodies the state machine sends
SentLoginRequests ==
    {q \in LoginRequests :
        \/ q.username = U_budi /\ q.password \in {"rahasia", "sandi", "password123"}
        \/ q.username = U_Budi /\ q.password = "rahasia"
        \/ q.username = U_ani /\ q.password = "sandi"}

\* a mutated query that looks the user up by username alone
LoginRows_username_only(payload, usersT) ==
    {id \in DOMAIN usersT : usersT[id].username = payload.username}

\* SELECT id FROM users WHERE username = $1 AND password_hash = $2
LoginRows(payload, usersT) ==
    {id \in DOMAIN usersT :
        /\ usersT[id].username = payload.username
        /\ usersT[id].password_hash = payload.password}

\* a mutated login whose token names some stored user
login_any_row(payload, usersT, dbOk) ==
    IF ~dbOk \/ LoginRows(payload, usersT) = {}
    THEN Error("login", ST_UNAUTHORIZED, <<"Username atau password salah">>)
    ELSE [op |-> "login", status |-> ST_OK, error |-> <<>>,
          body |-> [token |-> [prefix |-> "dummy_token_for_",
                               rest |-> Uuid_to_string(
                                   CHOOSE id \in DOMAIN usersT : TRUE)]]]

\* login(pool, payload): fetch_one takes the row found (usernames being
\* unique, there is at most one); every error answers 401
login(payload, usersT, dbOk) ==
    IF ~dbOk \/ LoginRows(payload, usersT) = {}
    THEN Error("login", ST_UNAUTHORIZED, <<"Username atau password salah">>)
    ELSE [op |-> "login", status |-> ST_OK, error |-> <<>>,
          body |-> [token |-> [prefix |-> "dummy_token_for_",
                               rest |-> Uuid_to_string(
                                   CHOOSE id \in LoginRows(payload, usersT) : TRUE)]]]

-----------------------------------------------------------------------------
(* motors: /api/motors                                                     *)

\* bodies of POST /api/motors (CreateMotorRequest)
CreateMotorRequests ==
    {[motor_slug |-> <<"honda-beat">>, motor_name |-> <<"Honda Beat">>,
      motor_type |-> <<"matic">>, price_per_day |-> 50000,
      description |-> Some(<<"Irit">>), image_url |-> Some(<<"/img/beat.png">>),
      available |-> None, branch |-> Some(<<"Bandung">>)],
     [motor_slug |-> <<"cbr-150">>, motor_name |-> <<"Honda CBR">>,
      motor_type |-> <<"sport">>, price_per_day |-> 150000,
      description |-> None, image_url |-> None,
      available |-> Some(FALSE), branch |-> None],
     [motor_slug |-> <<"vario">>, motor_name |-> <<"Honda Vario">>,
      motor_type |-> <<"matic">>, price_per_day |-> 0,
      description |-> Some(<<>>), image_url |-> None,
      available |-> Some(TRUE), branch |-> Some(<<"Jakarta">>)]}

\* the bodies the state machine sends
SentCreateMotorRequests == {r \in CreateMotorRequests : r.price_per_day > 0}

\* a mutated INSERT that binds available.unwrap_or(false)
InsertedMotor_unavailable(payload) ==
    [motor_slug |-> payload.motor_slug,
     motor_name |-> payload.motor_name,
     motor_type |-> payload.motor_type,
     price_per_day |-> payload.price_per_day,
     description |-> payload.description,
     image_url |-> payload.image_url,
     available |-> Some(IF payload.available.some THEN payload.available.v
                        ELSE FALSE),
     branch |-> payload.branch]

\* the row create_motor's INSERT binds; motor_id is left to storage
InsertedMotor(payload) ==
    [motor_slug |-> payload.motor_slug,
     motor_name |-> payload.motor_name,
     motor_type |-> payload.motor_type,
     price_per_day |-> payload.price_per_day,
     description |-> payload.description,
     image_url |-> payload.image_url,
     available |-> Some(IF payload.available.some THEN payload.available.v
                        ELSE TRUE),
     branch |-> payload.branch]

\* the Motor a handler builds from a row
MotorOf(motor_id, row) ==
    [motor_id |-> motor_id,
     motor_slug |-> row.motor_slug,
     motor_name |-> row.motor_name,
     motor_type |-> row.motor_type,
     price_per_day |-> row.price_per_day,
     description |-> row.description,
     image_url |-> row.image_url,
     available |-> row.available,
     branch |-> row.branch]

\* the motor_id storage assigns to the next inserted row
NextMotorId(seq) == seq + 1

\* create_motor(pool, payload); seq: the last motor_id storage assigned;
\* dbOk: the INSERT succeeds; burn: a failed INSERT still used up an id
create_motor(payload, motorsT, seq, dbOk, burn) ==
    IF ~dbOk
    THEN [resp |-> Error("create_motor", ST_INTERNAL,
                         <<"Database error: ", "sqlx::Error">>),
          motors |-> motorsT,
          seq |-> IF burn THEN NextMotorId(seq) ELSE seq]
    ELSE LET motor_id == NextMotorId(seq) IN
         [resp |-> [op |-> "create_motor", status |-> ST_OK, error |-> <<>>,
                    body |-> MotorOf(motor_id, InsertedMotor(payload))],
          motors |-> (motor_id :> InsertedMotor(payload)) @@ motorsT,
          seq |-> motor_id]

\* the path segment :id of /api/motors/:id
MotorPaths == 0..(MaxMotors + 1)

\* get_motor(pool, Path(motor_id)); dbOk: the SELECT succeeds
get_motor(motor_id, motorsT, dbOk) ==
    IF ~dbOk
    THEN Error("get_motor", ST_INTERNAL, <<"Database error">>)
    ELSE IF motor_id \notin DOMAIN motorsT
    THEN Error("get_motor", ST_NOT_FOUND, <<"Motor not found">>)
    ELSE [op |-> "get_motor", status |-> ST_OK, error |-> <<>>,
          body |-> MotorOf(motor_id, motorsT[motor_id])]

\* a body of PUT /api/motors/:id that supplies nothing
NoUpdate ==
    [motor_slug |-> None, motor_name |-> None, motor_type |-> None,
     price_per_day |-> None, description |-> None, image_url |-> None,
     available |-> None, branch |-> None]

\* bodies of PUT /api/motors/:id (UpdateMotorRequest)
UpdateMotorRequests ==
    {NoUpdate,
     [NoUpdate EXCEPT !.available = Some(FALSE)],
     [NoUpdate EXCEPT !.price_per_day = Some(60000),
                      !.motor_name = Some(<<"Honda Beat 2024">>)],
     [NoUpdate EXCEPT !.motor_type = Some(<<"sport">>),
                      !.description = Some(<<"Baru">>)]}

\* the bodies the state machine sends
SentUpdateMotorRequests ==
    {u \in UpdateMotorRequests : ~u.motor_type.some}

\* the columns of motors an update may set, in the order of the SET list
MotorColumns ==
    <<"motor_slug", "motor_name", "motor_type", "price_per_day",
      "description", "image_url", "available", "branch">>

\* the columns for which the body supplies a value (query_parts)
Supplied(payload) ==
    {c \in {MotorColumns[i] : i \in DOMAIN MotorColumns} : payload[c].some}

\* a mutated UPDATE that writes NULL to the nullable columns left out
UpdatedMotor_nulls_rest(row, payload) ==
    [c \in DOMAIN row |->
        IF c \notin Supplied(payload)
        THEN (IF c \in {"description", "image_url", "branch"} THEN None ELSE row[c])
        ELSE IF c \in {"description", "image_url", "available", "branch"}
        THEN Some(payload[c].v)
        ELSE payload[c].v]

\* the row after UPDATE motors SET <supplied columns>
UpdatedMotor(row, payload) ==
    [c \in DOMAIN row |->
        IF c \notin Supplied(payload) THEN row[c]
        ELSE IF c \in {"description", "image_url", "available", "branch"}
        THEN Some(payload[c].v)
        ELSE payload[c].v]

\* a mutated handler that looks the row up before it inspects the body
update_motor_lookup_first(motor_id, payload, motorsT, dbOk) ==
    IF ~dbOk
    THEN [resp |-> Error("update_motor", ST_INTERNAL, <<"Database error">>),
          motors |-> motorsT]
    ELSE IF motor_id \notin DOMAIN motorsT
    THEN [resp |-> Error("update_motor", ST_NOT_FOUND, <<"Motor not found">>),
          motors |-> motorsT]
    ELSE IF Supplied(payload) = {}
    THEN [resp |-> Error("update_motor", ST_BAD_REQUEST,
                         <<"No valid fields to update">>),
          motors |-> motorsT]
    ELSE [resp |-> [op |-> "update_motor", status |-> ST_OK, error |-> <<>>,
                    body |-> MotorOf(motor_id, UpdatedMotor(motorsT[motor_id], payload))],
          motors |-> [motorsT EXCEPT ![motor_id] = UpdatedMotor(@, payload)]]

\* update_motor(pool, Path(motor_id), payload); dbOk: the UPDATE succeeds
update_motor(motor_id, payload, motorsT, dbOk) ==
    IF Supplied(payload) = {}
    THEN [resp |-> Error("update_motor", ST_BAD_REQUEST,
                         <<"No valid fields to update">>),
          motors |-> motorsT]
    ELSE IF ~dbOk
    THEN [resp |-> Error("update_motor", ST_INTERNAL, <<"Database error">>),
          motors |-> motorsT]
    ELSE IF motor_id \notin DOMAIN motorsT
    THEN [resp |-> Error("update_motor", ST_NOT_FOUND, <<"Motor not found">>),
          motors |-> motorsT]
    ELSE LET row == UpdatedMotor(motorsT[motor_id], payload) IN
         [resp |-> [op |-> "update_motor", status |-> ST_OK, error |-> <<>>,
                    body |-> MotorOf(motor_id, row)],
          motors |-> [motorsT EXCEPT ![motor_id] = row]]

\* a mutated handler that does not look at rows_affected
delete_motor_always_ok(motor_id, motorsT, dbOk) ==
    IF ~dbOk
    THEN [resp |-> Error("delete_motor", ST_INTERNAL, <<"Database error">>),
          motors |-> motorsT]
    ELSE [resp |-> [op |-> "delete_motor", status |-> ST_OK, error |-> <<>>],
          motors |-> Without(motorsT, {motor_id})]

\* delete_motor(pool, Path(motor_id)); dbOk: the DELETE succeeds
delete_motor(motor_id, motorsT, dbOk) ==
    IF ~dbOk
    THEN [resp |-> Error("delete_motor", ST_INTERNAL, <<"Database error">>),
          motors |-> motorsT]
    ELSE IF motor_id \notin DOMAIN motorsT
    THEN [resp |-> Error("delete_motor", ST_NOT_FOUND, <<"Motor not found">>),
          motors |-> motorsT]
    ELSE [resp |-> [op |-> "delete_motor", status |-> ST_OK, error |-> <<>>],
          motors |-> Without(motorsT, {motor_id})]

\* the query of GET /api/motors (MotorQuery): page and limit as sent
MotorQueries ==
    [page : {None} \cup {Some(n) : n \in {-5, 0, 1, 2, 1000, 21474837,
                                           1073741825, 2147483647}},
     limit : {None} \cup {Some(n) : n \in {-1, 0, 1, 2, 4, 1000}},
     motor_type : {None, Some(<<"matic">>)},
     available_only : {None, Some(TRUE)}]

\* the queries the state machine sends
SentMotorQueries ==
    {q \in MotorQueries :
        /\ q.page \in {None, Some(0), Some(2), Some(2147483647)}
        /\ q.limit \in {None, Some(0), Some(1), Some(1000)}}

\* how the binary was built: overflow checks on (debug) or off (release)
Builds == {"debug", "release"}

Max(a, b) == IF a >= b THEN a ELSE b
Min(a, b) == IF a <= b THEN a ELSE b

\* a * l in i32 for 0 <= a < 2^31 and 1 <= l <= 1000, computed in 16-bit
\* halves: whether the product overflows, and the value that two's-complement
\* wrapping leaves
MulI32(a, l) ==
    LET low == (a % 65536) * l
        high == (a \div 65536) * l + (low \div 65536)
        hi16 == high % 65536
        lo16 == low % 65536
    IN  [overflow |-> high >= 32768,
         wrapped |-> IF hi16 >= 32768 THEN (hi16 - 65536) * 65536 + lo16
                     ELSE hi16 * 65536 + lo16]

\* a mutated clamp that forgets the upper bound of limit
ClampLimit_no_ceiling(limit) == Max(IF limit.some THEN limit.v ELSE 10, 1)

\* params.page.unwrap_or(1).max(1)
ClampPage(page) == Max(IF page.some THEN page.v ELSE 1, 1)

\* params.limit.unwrap_or(10).min(100).max(1)
ClampLimit(limit) == Max(Min(IF limit.some THEN limit.v ELSE 10, 100), 1)

\* the rows the WHERE clause of list_motors keeps
Matching(params, motorsT) ==
    {id \in DOMAIN motorsT :
        /\ params.motor_type.some => motorsT[id].motor_type = params.motor_type.v
        /\ (params.available_only.some /\ params.available_only.v) =>
               motorsT[id].available = Some(TRUE)}

\* ORDER BY motor_id ASC LIMIT limit OFFSET offset over the rows ids
PageOf(ids, limit, offset) ==
    LET rank(id) == Cardinality({m \in ids : m < id})
        kept == {id \in ids : rank(id) >= offset /\ rank(id) - offset < limit}
    IN  [i \in 1..Cardinality(kept) |->
            CHOOSE id \in kept : rank(id) - offset = i - 1]

\* list_motors(pool, params).  fail: 0 none, 1 the COUNT, 2 the SELECT.
\* An overflowing offset panics in a debug build and wraps in a release
\* build; storage rejects a negative OFFSET.
\* the filter the count statement would use if it dropped available_only
CountOf_type_only(params, motorsT) ==
    Cardinality({id \in DOMAIN motorsT :
        params.motor_type.some => motorsT[id].motor_type = params.motor_type.v})

\* SELECT COUNT(*) as total FROM motors <where_clause>
CountOf(params, motorsT) == Cardinality(Matching(params, motorsT))

\* list_motors from its second statement on: total is what the count
\* statement returned, motorsT the table the page statement reads.  fail: 0
\* none, 1 the count statement, 2 the page statement
list_motors_at(params, total, motorsT, fail, build) ==
    LET page == ClampPage(params.page)
        limit == ClampLimit(params.limit)
        product == MulI32(page - 1, limit)
        offset == product.wrapped
        rows == PageOf(Matching(params, motorsT), limit, offset)
    IN  IF product.overflow /\ build = "debug"
        THEN Error("list_motors", ST_PANIC, <<"attempt to multiply with overflow">>)
        ELSE IF fail = 1 \/ fail = 2 \/ offset < 0
        THEN Error("list_motors", ST_INTERNAL, <<"Database error">>)
        ELSE [op |-> "list_motors", status |-> ST_OK, error |-> <<>>,
              body |-> [motors |-> [i \in DOMAIN rows |->
                                      MotorOf(rows[i], motorsT[rows[i]])],
                        total |-> total,
                        page |-> page,
                        limit |-> limit]]

\* list_motors(pool, params) with no statement of another request between
\* its two statements
list_motors(params, motorsT, fail, build) ==
    list_motors_at(params, CountOf(params, motorsT), motorsT, fail, build)

-----------------------------------------------------------------------------
(* main: the connection phase                                               *)

\* for attempt in 1..=5
Attempts == 5

\* tokio::time::sleep(Duration::from_secs(2))
BackoffSecs == 2

\* main before its first attempt
Booting == [pc |-> "connect", attempt |-> 1, pool |-> FALSE, slept |-> 0]

\* Ok(p): pool_opt = Some(p); break
AfterSuccess(b) == [b EXCEPT !.pool = TRUE, !.pc = "after"]

\* a mutated loop that goes on to another attempt without limit
AfterFailure_unbounded(b) ==
    [b EXCEPT !.slept = @ + BackoffSecs, !.attempt = @ + 1, !.pc = "connect"]

\* Err(e): sleep 2 s, then the next attempt, or the end of the loop
AfterFailure(b) ==
    IF b.attempt < Attempts
    THEN [b EXCEPT !.slept = @ + BackoffSecs, !.attempt = @ + 1, !.pc = "connect"]
    ELSE [b EXCEPT !.slept = @ + BackoffSecs, !.pc = "after"]

\* after the loop: panic! without a pool, else build the router and serve
AfterLoop(b) == [b EXCEPT !.pc = IF b.pool THEN "serve" ELSE "panic"]

-----------------------------------------------------------------------------
(* The state machine *)

\* what the state keeps of a response: its handler, status and error
Line(r) == [op |-> r.op, status |-> r.status, error |-> r.error]

Empty == [k \in {} |-> 0]

Init ==
    /\ users = Empty
    /\ orders = Empty
    /\ motors = Empty
    /\ motorSeq = 0
    /\ usedIds = {}
    /\ clock = <<0, 0>>
    /\ resp = [op |-> "none", status |-> "none", error |-> <<>>]
    /\ submitted = Empty
    /\ boot = [pc |-> "serve", attempt |-> 1, pool |-> TRUE, slept |-> 0]
    /\ tasks = Empty

motorVars == <<motors, motorSeq, submitted>>

procVars == <<boot, tasks>>

\* the storage clock advances: later the same day, or to the next day
Tick ==
    /\ \/ clock[2] = 0 /\ clock' = <<clock[1], 1>>
       \/ clock[1] < MaxDay /\ clock' = <<clock[1] + 1, 0>>
    /\ UNCHANGED <<procVars, users, orders, usedIds, resp, motorVars>>

Register ==
    \E payload \in RegisterRequests, dbOk \in BOOLEAN :
        /\ UserIds \ usedIds # {}
        /\ \E r \in {register(payload, users, NewUuid(UserIds), dbOk)} :
               /\ users' = r.users
               /\ resp' = Line(r.resp)
               /\ usedIds' = usedIds \cup DOMAIN r.users
        /\ UNCHANGED <<procVars, orders, clock, motorVars>>

DeleteProfil ==
    \E headers \in SentHeaders, id \in UserPaths, fail \in 0..2, fk \in FkOnDelete :
        \E r \in {delete_profil(headers, id, users, orders, fail, fk)} :
        /\ users' = r.users
        /\ orders' = r.orders
        /\ resp' = Line(r.resp)
        /\ UNCHANGED <<procVars, usedIds, clock, motorVars>>

CreateBookingOf(payloads) ==
    \E headers \in SentHeaders, payload \in payloads, fail \in 0..2, ms \in SentMs :
        \E order_id \in {IF OrderIds \ usedIds = {} THEN <<"o", 0>>
                          ELSE NewUuid(OrderIds)} :
        \E r \in {create_booking(headers, payload, users, orders, clock,
                                 fail, order_id, ms)} :
            /\ r.gen => OrderIds \ usedIds # {}
            /\ orders' = r.orders
            /\ resp' = Line(r.resp)
            /\ usedIds' = usedIds \cup DOMAIN r.orders
            /\ UNCHANGED <<procVars, users, clock, motorVars>>

CreateBooking == CreateBookingOf(SentPayloads)

GetBooking ==
    \E booking_id \in OrderPaths, dbOk \in BOOLEAN :
        /\ resp' = Line(get_booking(booking_id, orders, dbOk))
        /\ UNCHANGED <<procVars, users, orders, usedIds, clock, motorVars>>

UpdateBookingOf(statuses) ==
    \E booking_id \in OrderPaths, st \in statuses, dbOk \in BOOLEAN :
        \E r \in {update_booking(booking_id, st, orders, dbOk)} :
        /\ orders' = r.orders
        /\ resp' = Line(r.resp)
        /\ UNCHANGED <<procVars, users, usedIds, clock, motorVars>>

UpdateBooking == UpdateBookingOf(StatusValues)

DeleteBooking ==
    \E booking_id \in OrderPaths, dbOk \in BOOLEAN :
        \E r \in {delete_booking(booking_id, orders, dbOk)} :
        /\ orders' = r.orders
        /\ resp' = Line(r.resp)
        /\ UNCHANGED <<procVars, users, usedIds, clock, motorVars>>

ListBookings ==
    \E headers \in SentHeaders, fail \in 0..2, tie \in SentTieBreaks :
        /\ resp' = Line(list_bookings(headers, users, orders, fail, tie))
        /\ UNCHANGED <<procVars, users, orders, usedIds, clock, motorVars>>

ListAllBookings ==
    \E headers \in SentHeaders, dbOk \in BOOLEAN, tie \in SentTieBreaks :
        /\ resp' = Line(orders_all_route(headers, users, orders, dbOk, tie))
        /\ UNCHANGED <<procVars, users, orders, usedIds, clock, motorVars>>

\* users come and go while protected handlers resolve their tokens
NextAuth ==
    \/ Register
    \/ DeleteProfil
    \/ CreateBooking
    \/ ListBookings

SpecAuth == Init /\ [][NextAuth]_vars

\* bookings are created while the storage clock advances
NextBooking ==
    \/ Tick
    \/ Register
    \/ CreateBooking

SpecBooking == Init /\ [][NextBooking]_vars

\* the orders of several users are created, read, updated, deleted and listed
NextOrders ==
    \/ Register
    \/ CreateBooking
    \/ GetBooking
    \/ UpdateBooking
    \/ DeleteBooking
    \/ ListBookings
    \/ ListAllBookings

SpecOrders == Init /\ [][NextOrders]_vars

\* a write to motors has committed: the list requests waiting for their
\* page statement have been overtaken by it
Overtaken(ts) ==
    [t \in DOMAIN ts |->
        IF ts[t].pc = "page" THEN [ts[t] EXCEPT !.raced = TRUE] ELSE ts[t]]

CreateMotorOf(payloads) ==
    \E payload \in payloads, dbOk \in BOOLEAN, burn \in BOOLEAN :
        /\ motorSeq < MaxMotors
        /\ \E r \in {create_motor(payload, motors, motorSeq, dbOk, burn)} :
           /\ motors' = r.motors
           /\ motorSeq' = r.seq
           /\ resp' = Line(r.resp)
           /\ submitted' = IF r.resp.status = ST_OK
                           THEN (r.seq :> payload) @@ submitted
                           ELSE submitted
           /\ tasks' = IF r.resp.status = ST_OK THEN Overtaken(tasks) ELSE tasks
        /\ UNCHANGED <<boot, users, orders, usedIds, clock>>

CreateMotor == CreateMotorOf(SentCreateMotorRequests)

GetMotor ==
    \E motor_id \in MotorPaths, dbOk \in BOOLEAN :
        /\ resp' = Line(get_motor(motor_id, motors, dbOk))
        /\ UNCHANGED <<procVars, users, orders, usedIds, clock, motorVars>>

UpdateMotorOf(payloads) ==
    \E motor_id \in MotorPaths, payload \in payloads, dbOk \in BOOLEAN :
        \E r \in {update_motor(motor_id, payload, motors, dbOk)} :
        /\ motors' = r.motors
        /\ resp' = Line(r.resp)
        /\ submitted' = IF r.resp.status = ST_OK
                        THEN Without(submitted, {motor_id})
                        ELSE submitted
        /\ tasks' = IF r.resp.status = ST_OK THEN Overtaken(tasks) ELSE tasks
        /\ UNCHANGED <<boot, users, orders, usedIds, clock, motorSeq>>

UpdateMotor == UpdateMotorOf(SentUpdateMotorRequests)

DeleteMotor ==
    \E motor_id \in MotorPaths, dbOk \in BOOLEAN :
        \E r \in {delete_motor(motor_id, motors, dbOk)} :
        /\ motors' = r.motors
        /\ resp' = Line(r.resp)
        /\ submitted' = IF r.resp.status = ST_OK
                        THEN Without(submitted, {motor_id})
                        ELSE submitted
        /\ tasks' = IF r.resp.status = ST_OK THEN Overtaken(tasks) ELSE tasks
        /\ UNCHANGED <<boot, users, orders, usedIds, clock, motorSeq>>

ListMotors ==
    \E params \in SentMotorQueries, fail \in 0..2, build \in Builds :
        /\ resp' = Line(list_motors(params, motors, fail, build))
        /\ UNCHANGED <<procVars, users, orders, usedIds, clock, motorVars>>

\* the motor catalogue: no handler of it reads a header
NextMotor ==
    \/ CreateMotor
    \/ GetMotor
    \/ UpdateMotor
    \/ DeleteMotor
    \/ ListMotors

SpecMotor == Init /\ [][NextMotor]_vars

\* the requests that write the motor catalogue
NextMotorEdit ==
    \/ CreateMotor
    \/ UpdateMotor
    \/ DeleteMotor

SpecMotorEdit == Init /\ [][NextMotorEdit]_vars

CreateProfilOf(requests) ==
    \E headers \in SentHeaders, request \in requests, fail \in 0..3 :
        \E fresh \in {IF UserIds \ usedIds = {} THEN <<"u", 0>> ELSE NewUuid(UserIds)} :
        \E r \in {create_profil(headers, request, users, fail, fresh)} :
            /\ DOMAIN r.users \subseteq UserIds
            /\ users' = r.users
            /\ resp' = Line(r.resp)
            /\ usedIds' = usedIds \cup DOMAIN r.users
            /\ UNCHANGED <<procVars, orders, clock, motorVars>>

CreateProfil == CreateProfilOf(SentCreateProfilRequests)

UpdateProfilOf(requests) ==
    \E headers \in SentHeaders, id \in UserPaths,
       request \in requests, fail \in 0..3 :
        \E r \in {update_profil(headers, id, request, users, fail)} :
            /\ users' = r.users
            /\ resp' = Line(r.resp)
            /\ UNCHANGED <<procVars, orders, usedIds, clock, motorVars>>

UpdateProfil == UpdateProfilOf(SentUpdateProfilRequests)

\* registered users edit profiles
NextProfil ==
    \/ Register
    \/ UpdateProfil

SpecProfil == Init /\ [][NextProfil]_vars

\* profiles are saved beside registered users
NextSaveProfil ==
    \/ Register
    \/ CreateProfil

SpecSaveProfil == Init /\ [][NextSaveProfil]_vars

GetMyProfil ==
    \E headers \in SentHeaders, fail \in 0..2 :
        /\ resp' = Line(get_my_profil(headers, users, fail))
        /\ UNCHANGED <<procVars, users, orders, usedIds, clock, motorVars>>

\* the response line, and whether the caller asked for its own row
GetProfil ==
    \E headers \in SentHeaders, id \in ProfilPaths, fail \in 0..2 :
        /\ resp' = Line(get_profil(headers, id, users, fail))
                       @@ [own |-> headers = Header(TRUE, "Bearer ", "dummy_token_for_", id)]
        /\ UNCHANGED <<procVars, users, orders, usedIds, clock, motorVars>>

GetProfilByUserId ==
    \E headers \in SentHeaders, user_id \in ProfilPaths, fail \in 0..2 :
        /\ resp' = Line(get_profil_by_user_id(headers, user_id, users, fail))
        /\ UNCHANGED <<procVars, users, orders, usedIds, clock, motorVars>>

ListProfils ==
    \E headers \in SentHeaders, fail \in 0..2 :
        /\ resp' = Line(list_profils(headers, users, fail))
        /\ UNCHANGED <<procVars, users, orders, usedIds, clock, motorVars>>

\* any caller reads, edits and deletes any profile
NextAccess ==
    \/ Register
    \/ GetMyProfil
    \/ GetProfil
    \/ GetProfilByUserId
    \/ UpdateProfil
    \/ DeleteProfil
    \/ ListProfils

SpecAccess == Init /\ [][NextAccess]_vars

Login ==
    \E payload \in SentLoginRequests, dbOk \in BOOLEAN :
        /\ resp' = Line(login(payload, users, dbOk))
        /\ UNCHANGED <<procVars, users, orders, usedIds, clock, motorVars>>

\* users register, save profiles and log in
NextLogin ==
    \/ Register
    \/ CreateProfil
    \/ Login

SpecLogin == Init /\ [][NextLogin]_vars

\* the request bodies the smaller state machines send: one or two of each
\* kind
CitraRequests == {q \in SentCreateProfilRequests : q.nama = N_Citra}

PlainPayloads == {BasePayload}

ConfirmedOnly == {Str(<<"confirmed">>)}

DefaultAvailableRequests == {r \in SentCreateMotorRequests : r.available = None}

RetireRequests == {[NoUpdate EXCEPT !.available = Some(FALSE)]}

RacedPayloads == {BasePayload, [BasePayload EXCEPT !.pilihCabang = Absent]}

RacingUpdateRequests ==
    {q \in SentUpdateProfilRequests : q.email # Some("ani@mail.id")}

EmailUpdateRequests ==
    {q \in SentUpdateProfilRequests : q.nama = None /\ q.email = Some("baru@mail.id")}

ReferencePayloads ==
    {BasePayload, [BasePayload EXCEPT !.bookingId = Str(<<"BWK", "7", "7">>)]}

\* storage has room for another row
RowsLeft == Cardinality(usedIds) < MaxRows

\* users and their bookings come and go; one body of each kind is enough to
\* tell which rows exist
NextRefs ==
    \/ RowsLeft /\ Register
    \/ RowsLeft /\ CreateProfilOf(CitraRequests)
    \/ RowsLeft /\ CreateBookingOf(PlainPayloads)
    \/ UpdateBookingOf(ConfirmedOnly)
    \/ DeleteBooking
    \/ DeleteProfil

SpecRefs == Init /\ [][NextRefs]_vars

\* bookings of several users are made at different times and listed for
\* whoever asks
NextAdmin ==
    \/ Tick
    \/ Register
    \/ CreateBookingOf(PlainPayloads)
    \/ ListAllBookings

SpecAdmin == Init /\ [][NextAdmin]_vars

\* main at process start
InitBoot ==
    /\ users = Empty
    /\ orders = Empty
    /\ motors = Empty
    /\ motorSeq = 0
    /\ usedIds = {}
    /\ clock = <<0, 0>>
    /\ resp = [op |-> "none", status |-> "none", error |-> <<>>]
    /\ submitted = Empty
    /\ boot = Booting
    /\ tasks = Empty

bootFrame == <<users, orders, motors, motorSeq, usedIds, clock, resp, submitted, tasks>>

\* PgPoolOptions::new()...connect(&database_url).await, and its outcome
Connect ==
    /\ boot.pc = "connect"
    /\ \E ok \in BOOLEAN :
           boot' = IF ok THEN AfterSuccess(boot) ELSE [boot EXCEPT !.pc = "sleep"]
    /\ UNCHANGED bootFrame

\* the sleep after a failed attempt ends
Backoff ==
    /\ boot.pc = "sleep"
    /\ boot' = AfterFailure(boot)
    /\ UNCHANGED bootFrame

\* the loop is left: panic, or axum::serve
LeaveLoop ==
    /\ boot.pc = "after"
    /\ boot' = AfterLoop(boot)
    /\ UNCHANGED bootFrame

\* axum::serve is running
Serving == boot.pc = "serve"

\* the process connects, then serves registrations, profiles and logins
NextBoot ==
    \/ Connect
    \/ Backoff
    \/ LeaveLoop
    \/ Serving /\ Register
    \/ Serving /\ CreateProfil
    \/ Serving /\ Login

\* main is the only task until it serves; connect returns within its
\* acquire_timeout and the sleep ends, so each of its steps is taken
SpecBoot ==
    /\ InitBoot
    /\ [][NextBoot]_vars
    /\ WF_vars(Connect)
    /\ WF_vars(Backoff)
    /\ WF_vars(LeaveLoop)

\* list_motors up to its count statement: a request that fails there is
\* answered at once, any other waits for its page statement
ListMotorsCountOf(queries) ==
    \E params \in queries, fail \in {0, 1}, build \in Builds :
        /\ \A t \in DOMAIN tasks : tasks[t].pc = "done"
        /\ \E r \in {list_motors_at(params, 0, motors, fail, build)} :
               IF r.status \in {ST_PANIC, ST_INTERNAL} /\ (fail = 1 \/ r.status = ST_PANIC)
               THEN resp' = Line(r) /\ tasks' = Empty
               ELSE /\ resp' = resp
                    /\ tasks' = ("list" :> [pc |-> "page", params |-> params,
                                            build |-> build,
                                            total |-> CountOf(params, motors),
                                            raced |-> FALSE])
        /\ UNCHANGED <<boot, users, orders, usedIds, clock, motorVars>>

\* the page statement of the request in flight, and its response
ListMotorsPage ==
    \E fail \in {0, 2} :
        /\ "list" \in DOMAIN tasks
        /\ tasks["list"].pc = "page"
        /\ \E t \in {tasks["list"]} :
           \E r \in {list_motors_at(t.params, t.total, motors, fail, t.build)} :
               /\ resp' = Line(r)
               /\ tasks' = ("list" :> [pc |-> "done", params |-> t.params,
                                       status |-> r.status,
                                       raced |-> t.raced,
                                       total |-> t.total,
                                       items |-> IF r.status = ST_OK
                                                 THEN [i \in DOMAIN r.body.motors |->
                                                           r.body.motors[i].motor_id]
                                                 ELSE <<>>])
        /\ UNCHANGED <<boot, users, orders, usedIds, clock, motorVars>>

\* the queries listed while motors are written
PagedQueries ==
    {q \in MotorQueries :
        /\ q.page \in {None, Some(2)}
        /\ q.limit \in {None, Some(1)}
        /\ q.page = None <=> q.limit = None
        /\ q.motor_type = None}

\* motors are written while a list request is between its two statements
NextMotorList ==
    \/ CreateMotorOf(DefaultAvailableRequests)
    \/ UpdateMotorOf(RetireRequests)
    \/ DeleteMotor
    \/ ListMotorsCountOf(PagedQueries)
    \/ ListMotorsPage

SpecMotorList == Init /\ [][NextMotorList]_vars

\* requests that can be in flight together
TaskIds == {"a", "b"}

\* update_profil up to its SELECT: a request that ends there is answered at
\* once, any other keeps the row it read and waits for its UPDATE
UpdateProfilReadOf(requests) ==
    \E t \in TaskIds \ DOMAIN tasks, headers \in SentHeaders, id \in UserPaths,
       request \in requests, fail \in 0..2 :
        /\ \E r \in {update_profil(headers, id, request, users, fail)} :
               IF r.resp.status \in {ST_OK, ST_INTERNAL} /\ fail = 0
               THEN /\ resp' = resp
                    /\ tasks' = (t :> [pc |-> "write", user_id |-> Uuid_parse_str(id).v,
                                       request |-> request,
                                       current |-> users[Uuid_parse_str(id).v]])
                                 @@ tasks
               ELSE resp' = Line(r.resp) /\ tasks' = tasks
        /\ UNCHANGED <<boot, users, orders, usedIds, clock, motorVars>>

\* the UPDATE of a request in flight, and its response
UpdateProfilWrite ==
    \E t \in DOMAIN tasks, fail \in {0, 3} :
        /\ tasks[t].pc = "write"
        /\ \E r \in {update_profil_write(tasks[t].user_id, tasks[t].request,
                                         tasks[t].current, users, fail)} :
               /\ users' = r.users
               /\ resp' = Line(r.resp)
        /\ tasks' = Without(tasks, {t})
        /\ UNCHANGED <<boot, orders, usedIds, clock, motorVars>>

\* two profile updates of registered users run concurrently
NextProfilRace ==
    \/ Register
    \/ UpdateProfilReadOf(RacingUpdateRequests)
    \/ UpdateProfilWrite

SpecProfilRace == Init /\ [][NextProfilRace]_vars

\* create_booking up to the validation of its payload: a request that ends
\* there is answered at once, any other keeps the identity it resolved and
\* waits for its INSERT
CreateBookingResolveOf(payloads) ==
    \E t \in TaskIds \ DOMAIN tasks, headers \in SentHeaders,
       payload \in payloads, fail \in 0..1 :
        /\ \E auth \in {get_user_from_token(headers, users, fail # 1)} :
               IF auth.ok /\ validate_payload(payload).ok
               THEN /\ resp' = resp
                    /\ tasks' = (t :> [pc |-> "insert", user_id |-> auth.v,
                                       payload |-> payload]) @@ tasks
               ELSE /\ resp' = Line(create_booking(headers, payload, users, orders,
                                                   clock, fail, <<"o", 0>>, 0).resp)
                    /\ tasks' = tasks
        /\ UNCHANGED <<boot, users, orders, usedIds, clock, motorVars>>

\* the INSERT of a request in flight, and its response
CreateBookingInsert ==
    \E t \in DOMAIN tasks, dbOk \in BOOLEAN, ms \in SentMs :
        /\ tasks[t].pc = "insert"
        /\ OrderIds \ usedIds # {}
        /\ \E r \in {insert_booking_at(tasks[t].user_id, tasks[t].payload, users,
                                       orders, clock, dbOk, NewUuid(OrderIds), ms)} :
               /\ orders' = r.orders
               /\ resp' = Line(r.resp)
               /\ usedIds' = usedIds \cup DOMAIN r.orders
        /\ tasks' = Without(tasks, {t})
        /\ UNCHANGED <<boot, users, clock, motorVars>>

\* profiles are deleted while bookings of their users are in flight
NextBookingRace ==
    \/ Register
    \/ DeleteProfil
    \/ CreateBookingResolveOf(RacedPayloads)
    \/ CreateBookingInsert

SpecBookingRace == Init /\ [][NextBookingRace]_vars

-----------------------------------------------------------------------------
(* Properties                                                               *)

\* the header is "Bearer dummy_token_for_<uuid>" for the UUID id
Presents(headers, id) ==
    /\ headers.some
    /\ headers.v.ascii
    /\ headers.v.scheme = "Bearer "
    /\ headers.v.prefix = "dummy_token_for_"
    /\ headers.v.rest.form \in UuidForms
    /\ headers.v.rest.uuid = id

\* the header names a user that storage holds
ValidIdentity(headers, usersT) == \E id \in DOMAIN usersT : Presents(headers, id)

\* a UUID new_v4 may return that no stored row has
FreshOrderId == <<"o", MaxOrders + 1>>

\* a tie-break for requests whose order of rows is not at issue
SomeTie == CHOOSE t \in SentTieBreaks : TRUE

\* C1: resolve_identity. A request with no Authorization header, a header
\* that is not text, one not starting with "Bearer ", a token not starting
\* with "dummy_token_for_", a remainder that is no UUID, or a UUID that is no
\* stored user resolves to Unauthorized, and the protected handlers answer
\* 401; a well-formed token of a stored user resolves to that user.
C1_NegativeResolutionIsUnauthorized ==
    \A headers \in Headers :
        LET r == get_user_from_token(headers, users, TRUE) IN
        /\ ~ValidIdentity(headers, users) =>
               /\ r = Err(ST_UNAUTHORIZED)
               /\ list_bookings(headers, users, orders, 0, SomeTie).status
                      = ST_UNAUTHORIZED
               /\ create_booking(headers, BasePayload, users, orders, clock, 0,
                                 FreshOrderId, 42).resp.status = ST_UNAUTHORIZED
               /\ delete_profil(headers, Uuid_to_string(<<"u", 1>>), users, orders,
                                0, "CASCADE").resp.status = ST_UNAUTHORIZED
        /\ (\A id \in UserIds : ~Presents(headers, id)) =>
               get_user_from_token(headers, users, FALSE) = Err(ST_UNAUTHORIZED)
        /\ \A id \in DOMAIN users : Presents(headers, id) => r = Ok(id)

\* C1 witness: a user was deleted, their token no longer resolves, and a
\* protected handler has answered 401
C1_Witness ==
    /\ \E id \in (usedIds \cap UserIds) \ DOMAIN users :
           get_user_from_token(BearerFor(id), users, TRUE) = Err(ST_UNAUTHORIZED)
    /\ resp.op \in {"list_bookings", "create_booking", "delete_profil"}
    /\ resp.status = ST_UNAUTHORIZED

\* C3: create_booking without a valid identity answers Unauthorized whatever
\* the payload holds (missing or unparseable fields included), and inserts
\* no booking.
C3_UnauthenticatedCreateIsRejectedFirst ==
    \A headers \in Headers, payload \in Payloads, fail \in 0..2 :
        ~ValidIdentity(headers, users) =>
            LET r == create_booking(headers, payload, users, orders, clock, fail,
                                    FreshOrderId, 42)
            IN  /\ r.orders = orders
                /\ ~r.gen
                /\ r.resp.status # ST_BAD_REQUEST
                /\ fail # 1 => /\ r.resp.status = ST_UNAUTHORIZED
                                /\ r.resp.error = <<"Authentication required">>

\* C3 witness: users exist, and a create_booking request has been answered
\* 401
C3_Witness ==
    /\ DOMAIN users # {}
    /\ resp.op = "create_booking"
    /\ resp.status = ST_UNAUTHORIZED
    /\ resp.error = <<"Authentication required">>

\* the mandatory fields for which the payload holds no string
Unusable(payload) == {f \in Mandatory : payload[f].t # "str"}

\* C4: create_booking by an authenticated user with a payload that lacks a
\* mandatory field answers BadRequest, the message names a field the payload
\* holds no string for (pilihCabang when only pilihCabang is absent), and no
\* booking is inserted.
C4_MissingFieldIsBadRequest ==
    \A id \in DOMAIN users, payload \in Payloads, fail \in {0, 2} :
        (\E f \in Mandatory : payload[f] = Absent) =>
            LET r == create_booking(BearerFor(id), payload, users, orders, clock,
                                    fail, FreshOrderId, 42)
            IN  /\ r.resp.status = ST_BAD_REQUEST
                /\ \E f \in Unusable(payload) : r.resp.error = <<"Missing ", f>>
                /\ r.orders = orders

\* C4 witness: a registered user exists and a request was answered
\* "Missing pilihCabang"
C4_Witness ==
    /\ DOMAIN users # {}
    /\ resp.op = "create_booking"
    /\ resp.status = ST_BAD_REQUEST
    /\ resp.error = <<"Missing ", "pilihCabang">>

\* the date and time fields whose text chrono does not parse
Offending(payload) ==
    {f \in DateFields : ~ParseDate(payload[f].v).ok}
    \cup {f \in TimeFields : ~ParseTime(payload[f].v).ok}

\* C5: create_booking by an authenticated user with every mandatory field
\* present, of which a date does not parse as year-month-day or a time does
\* not parse as hour:minute, answers BadRequest naming an offending field,
\* and no booking is inserted.
C5_UnparseableFieldIsBadRequest ==
    \A id \in DOMAIN users, payload \in Payloads, fail \in {0, 2} :
        (Unusable(payload) = {} /\ Offending(payload) # {}) =>
            LET r == create_booking(BearerFor(id), payload, users, orders, clock,
                                    fail, FreshOrderId, 42)
            IN  /\ r.resp.status = ST_BAD_REQUEST
                /\ \E f \in Offending(payload) :
                       r.resp.error = <<"Invalid ", f, " format">>
                /\ r.orders = orders

\* C5 witness: a registered user exists and a request was answered
\* "Invalid tanggalPengembalian format"
C5_Witness ==
    /\ DOMAIN users # {}
    /\ resp.op = "create_booking"
    /\ resp.status = ST_BAD_REQUEST
    /\ resp.error = <<"Invalid ", "tanggalPengembalian", " format">>

\* the ids of the bookings a list response carries
ListedIds(data) == {data[i].id : i \in DOMAIN data}

\* C2: whatever create_booking, update_booking and delete_booking calls two
\* users made, list_bookings with A's token returns exactly the stored
\* orders whose user_id is A, never one of another user B, and
\* list_all_bookings returns the orders of all users together.
C2_ListOwnIsolatesUsers ==
    \A a \in DOMAIN users, tie \in TieBreaks :
        LET own == list_bookings(BearerFor(a), users, orders, 0, tie)
            all == list_all_bookings(users, orders, TRUE, tie)
            allIds == {all.body.data[i].row.id : i \in DOMAIN all.body.data}
        IN  /\ own.status = ST_OK
            /\ ListedIds(own.body.data)
                   = {o \in DOMAIN orders : orders[o].user_id = a}
            /\ own.body.total = Cardinality(ListedIds(own.body.data))
            /\ \A i \in DOMAIN own.body.data :
                   /\ own.body.data[i].user_id = a
                   /\ own.body.data[i].status = orders[own.body.data[i].id].status
                   /\ \A b \in DOMAIN users \ {a} : own.body.data[i].user_id # b
            /\ all.status = ST_OK
            /\ allIds = UNION {{o \in DOMAIN orders : orders[o].user_id = u} :
                                  u \in DOMAIN users}
            /\ all.body.total = Cardinality(allIds)

\* C2 witness: two users hold a booking each, one of them updated, and
\* list_bookings has answered
C2_Witness ==
    /\ \E a, b \in DOMAIN users :
           /\ a # b
           /\ \E o \in DOMAIN orders : orders[o].user_id = a
           /\ \E o \in DOMAIN orders :
                  orders[o].user_id = b /\ orders[o].status = <<"confirmed">>
    /\ resp.op = "list_bookings"
    /\ resp.status = ST_OK

\* C6: after create_booking succeeds with pickup date d and time t,
\* get_booking of the created order returns exactly d and t, in the textual
\* form create_booking's own response reports, and likewise for the return
\* date and time.
C6_DateTimeRoundTrip ==
    \A id \in DOMAIN users, payload \in Payloads :
        LET c == create_booking(BearerFor(id), payload, users, orders, clock, 0,
                                FreshOrderId, 42)
            g == get_booking(Uuid_to_string(FreshOrderId), c.orders, TRUE)
        IN  c.resp.status = ST_OK =>
                /\ g.status = ST_OK
                /\ \A f \in DateFields \cup TimeFields :
                       /\ g.body[f] = payload[f].v
                       /\ g.body[f] = c.resp.body.data[f]

\* C7: every order create_booking inserts has status "pending" right after
\* creation, whatever status, tanggalBooking or waktuBooking the payload
\* carries, and its booking date and time are storage's at insert time.
C7_CreatedPendingAndStamped ==
    /\ \A o \in DOMAIN orders :
           /\ orders[o].status = <<"pending">>
           /\ <<orders[o].tanggal_booking, orders[o].waktu_booking>> \in
                  {<<d, t>> \in (0..MaxDay) \X (0..1) :
                      d < clock[1] \/ (d = clock[1] /\ t <= clock[2])}
    /\ \A id \in DOMAIN users, payload \in Payloads :
           LET c == create_booking(BearerFor(id), payload, users, orders, clock, 0,
                                   FreshOrderId, 42)
           IN  c.resp.status = ST_OK =>
                   /\ DOMAIN c.orders = DOMAIN orders \cup {FreshOrderId}
                   /\ c.orders[FreshOrderId].status = <<"pending">>
                   /\ c.orders[FreshOrderId].tanggal_booking = clock[1]
                   /\ c.orders[FreshOrderId].waktu_booking = clock[2]
                   /\ c.resp.body.data.status = <<"pending">>

\* C7 witness: an order was created after storage's clock advanced, and a
\* payload carrying status "confirmed" and booking stamps is accepted
C7_Witness ==
    /\ \E o \in DOMAIN orders : orders[o].waktu_booking = 1
    /\ resp.op = "create_booking"
    /\ resp.status = ST_OK
    /\ \E id \in DOMAIN users :
           create_booking(BearerFor(id), FullPayload, users, orders, clock, 0,
                          FreshOrderId, 42).resp.status = ST_OK

\* C8: update_booking of an existing order sets its status to the payload's
\* status string, or to "pending" when the payload has none, and changes no
\* other field and no other order; for an id no order has it answers NotFound
\* and changes nothing.
C8_UpdateSetsStatusOnly ==
    \A path \in OrderPaths, statusValue \in StatusValues :
        LET r == update_booking(path, statusValue, orders, TRUE)
            id == path.uuid
        IN  path.form \in UuidForms =>
                IF id \in DOMAIN orders
                THEN /\ r.resp.status = ST_OK
                     /\ DOMAIN r.orders = DOMAIN orders
                     /\ r.orders[id].status =
                            IF statusValue.t = "str" THEN statusValue.v
                            ELSE <<"pending">>
                     /\ [r.orders[id] EXCEPT !.status = orders[id].status]
                            = orders[id]
                     /\ \A o \in DOMAIN orders \ {id} : r.orders[o] = orders[o]
                ELSE /\ r.resp.status = ST_NOT_FOUND
                     /\ r.orders = orders

\* C8 witness: an update has set an order to "confirmed", and an update
\* without a status would reset it
C8_Witness ==
    /\ resp.op = "update_booking"
    /\ resp.status = ST_OK
    /\ \E o \in DOMAIN orders :
           /\ orders[o].status = <<"confirmed">>
           /\ update_booking(Uuid_to_string(o), Absent, orders,
                             TRUE).orders[o].status = <<"pending">>

\* (page - 1) * limit fits i32
OffsetFits(page, limit) == page - 1 <= 2147483647 \div limit

\* C9: for every motor list request, whatever page and limit are sent
\* (absent, 0, negative, 1000), the page used and reported is >= 1 (1 by
\* default), the limit used and reported is within 1..100 (10 by default),
\* and the response carries between 0 and limit items.
C9_ListMotorsClampsPageAndLimit ==
    \A params \in MotorQueries, fail \in 0..2, build \in Builds :
        LET r == list_motors(params, motors, fail, build)
            sentPage == IF params.page.some THEN params.page.v ELSE 1
            sentLimit == IF params.limit.some THEN params.limit.v ELSE 10
        IN  /\ ClampPage(params.page) >= 1
            /\ ClampLimit(params.limit) \in 1..100
            /\ r.status \in {ST_OK, ST_INTERNAL, ST_PANIC}
            /\ (fail = 0 /\ OffsetFits(ClampPage(params.page),
                                        ClampLimit(params.limit)))
                   => r.status = ST_OK
            /\ r.status = ST_OK =>
                   /\ r.body.page = IF sentPage >= 1 THEN sentPage ELSE 1
                   /\ r.body.limit = IF sentLimit < 1 THEN 1
                                     ELSE IF sentLimit > 100 THEN 100
                                     ELSE sentLimit
                   /\ Len(r.body.motors) \in 0..r.body.limit
                   /\ Len(r.body.motors) <= r.body.total
                   /\ OffsetFits(r.body.page, r.body.limit) =>
                          LET left == r.body.total
                                        - (r.body.page - 1) * r.body.limit
                          IN  Len(r.body.motors) =
                                 IF left <= 0 THEN 0
                                 ELSE IF left < r.body.limit THEN left
                                 ELSE r.body.limit

\* C9 witness: several motors are stored, a list request has been answered,
\* and a request with limit 0 gets one of them under limit 1
C9_Witness ==
    /\ Cardinality(DOMAIN motors) >= 2
    /\ resp.op = "list_motors"
    /\ resp.status = ST_OK
    /\ LET r == list_motors([page |-> Some(-5), limit |-> Some(0),
                             motor_type |-> None, available_only |-> None],
                            motors, 0, "debug")
       IN  r.status = ST_OK /\ Len(r.body.motors) = 1 /\ r.body.total >= 2

\* the motor carries the fields of the create request, available defaulted
\* to true
Echoes(motor, payload) ==
    /\ motor.motor_slug = payload.motor_slug
    /\ motor.motor_name = payload.motor_name
    /\ motor.motor_type = payload.motor_type
    /\ motor.price_per_day = payload.price_per_day
    /\ motor.description = payload.description
    /\ motor.image_url = payload.image_url
    /\ motor.branch = payload.branch
    /\ motor.available =
          IF payload.available = None THEN Some(TRUE) ELSE payload.available

\* C10: after create_motor returns an item with storage-assigned id i,
\* get_motor(i) returns slug, name, type, price per day, description, image
\* and branch as submitted, and availability as submitted or true when it
\* was omitted, until that motor is updated or deleted.
C10_MotorCreateGetRoundTrip ==
    /\ \A id \in DOMAIN submitted :
           LET g == get_motor(id, motors, TRUE) IN
           /\ g.status = ST_OK
           /\ g.body.motor_id = id
           /\ Echoes(g.body, submitted[id])
    /\ \A payload \in CreateMotorRequests :
           LET c == create_motor(payload, motors, motorSeq, TRUE, FALSE)
               g == get_motor(c.resp.body.motor_id, c.motors, TRUE)
           IN  /\ c.resp.status = ST_OK
               /\ c.resp.body.motor_id \notin DOMAIN motors
               /\ g.status = ST_OK
               /\ g.body = c.resp.body
               /\ Echoes(g.body, payload)

\* C10 witness: a motor created without availability is still as created
\* while another one has been updated or deleted, and get_motor has answered
C10_Witness ==
    /\ \E id \in DOMAIN submitted :
           /\ submitted[id].available = None
           /\ motors[id].available = Some(TRUE)
    /\ \E id \in 1..motorSeq : id \notin DOMAIN submitted
    /\ resp.op = "get_motor"
    /\ resp.status = ST_OK

\* a value for every column an update may supply
NewValues ==
    [motor_slug |-> <<"new-slug">>, motor_name |-> <<"New Name">>,
     motor_type |-> <<"trail">>, price_per_day |-> 99000,
     description |-> <<"New description">>, image_url |-> <<"/img/new.png">>,
     available |-> FALSE, branch |-> <<"Surabaya">>]

\* the update body that supplies exactly the columns S
UpdateOf(S) == [c \in DOMAIN NoUpdate |-> IF c \in S THEN Some(NewValues[c]) ELSE None]

\* C11: update_motor with none of the eight fields supplied answers
\* BadRequest and leaves every motor row unchanged, whether or not the id
\* exists and whether or not storage is reachable.
C11_EmptyUpdateIsBadRequest ==
    \A motor_id \in MotorPaths, dbOk \in BOOLEAN :
        LET r == update_motor(motor_id, UpdateOf({}), motors, dbOk) IN
        /\ r.resp.status = ST_BAD_REQUEST
        /\ r.resp.error = <<"No valid fields to update">>
        /\ r.motors = motors

\* C11 witness: motors are stored and an update has been answered
\* "No valid fields to update"
C11_Witness ==
    /\ DOMAIN motors # {}
    /\ motorSeq + 1 \notin DOMAIN motors
    /\ resp.op = "update_motor"
    /\ resp.status = ST_BAD_REQUEST

\* the value every column holds after an update supplied NewValues for it
NewStored ==
    [c \in DOMAIN NoUpdate |->
        IF c \in {"description", "image_url", "available", "branch"}
        THEN Some(NewValues[c]) ELSE NewValues[c]]

\* C12: update_motor with a non-empty set S of fields supplied sets exactly
\* the columns in S of the row with the given id, each to its own supplied
\* value, leaves the other columns and the other rows untouched and returns
\* the row as stored; for an id no row has it answers NotFound and changes
\* nothing.
C12_UpdateSetsSuppliedFieldsOnly ==
    \A motor_id \in MotorPaths, S \in (SUBSET DOMAIN NoUpdate) \ {{}} :
        LET r == update_motor(motor_id, UpdateOf(S), motors, TRUE) IN
        IF motor_id \in DOMAIN motors
        THEN LET expected == [c \in DOMAIN NoUpdate |->
                                 IF c \in S THEN NewStored[c]
                                 ELSE motors[motor_id][c]]
             IN  /\ r.resp.status = ST_OK
                 /\ r.motors = [motors EXCEPT ![motor_id] = expected]
                 /\ r.resp.body.motor_id = motor_id
                 /\ [c \in DOMAIN NoUpdate |-> r.resp.body[c]] = expected
        ELSE /\ r.resp.status = ST_NOT_FOUND
             /\ r.motors = motors

\* C12 witness: an update has changed the price and name of one motor while
\* another motor is still as it was created
C12_Witness ==
    /\ resp.op = "update_motor"
    /\ resp.status = ST_OK
    /\ \E id \in DOMAIN motors :
           /\ motors[id].price_per_day = 60000
           /\ motors[id].description # None
    /\ DOMAIN submitted # {}

\* C13: delete_motor of an id no motor has answers NotFound and changes
\* nothing; of an existing id it removes exactly that motor and answers Ok,
\* and a second delete of the same id answers NotFound.
C13_DeleteMotorOnceThenNotFound ==
    \A motor_id \in MotorPaths :
        LET r == delete_motor(motor_id, motors, TRUE)
            again == delete_motor(motor_id, r.motors, TRUE)
        IN  /\ IF motor_id \in DOMAIN motors
               THEN /\ r.resp.status = ST_OK
                    /\ DOMAIN r.motors = DOMAIN motors \ {motor_id}
                    /\ \A other \in DOMAIN r.motors : r.motors[other] = motors[other]
               ELSE /\ r.resp.status = ST_NOT_FOUND
                    /\ r.motors = motors
            /\ again.resp.status = ST_NOT_FOUND
            /\ again.motors = r.motors

\* C13 witness: a motor was deleted, another is still stored, and a further
\* delete has been answered NotFound
C13_Witness ==
    /\ \E id \in 1..motorSeq : id \notin DOMAIN motors
    /\ DOMAIN motors # {}
    /\ resp.op = "delete_motor"
    /\ resp.status = ST_NOT_FOUND

\* the users table with one row replaced
WithRow(usersT, id, row) == [usersT EXCEPT ![id] = row]

\* C14: an authenticated update_profil that supplies only email, and that
\* storage accepts, stores the supplied email and leaves the user's name and
\* phone (and every other row) as they were; more generally every field the
\* request leaves out keeps its stored value, and an update that is refused
\* changes nothing.
C14_OmittedProfilFieldsAreKept ==
    \A headers \in Headers, id \in DOMAIN users, request \in UpdateProfilRequests :
        LET r == update_profil(headers, Uuid_to_string(id), request, users, 0)
            old == users[id]
        IN  IF r.resp.status = ST_OK
            THEN /\ ValidIdentity(headers, users)
                 /\ r.users = WithRow(users, id, r.users[id])
                 /\ r.users[id].username = old.username
                 /\ r.users[id].password_hash = old.password_hash
                 /\ r.users[id].full_name =
                        (IF request.nama.some THEN request.nama.v ELSE old.full_name)
                 /\ r.users[id].email =
                        (IF request.email.some THEN request.email.v ELSE old.email)
                 /\ r.users[id].phone =
                        (IF request.no_hp.some THEN request.no_hp.v ELSE old.phone)
                 /\ r.resp.body.nama = r.users[id].full_name
                 /\ r.resp.body.email = r.users[id].email
                 /\ r.resp.body.no_hp = r.users[id].phone
            ELSE /\ r.users = users
                 /\ ValidIdentity(headers, users)
                        => UniqueViolation(Without(users, {id}),
                                           MergedProfil(old, request))

\* an update that supplied only email has been stored for a user whose name
\* and phone are still the registered ones
C14_Witness ==
    /\ resp.op = "update_profil"
    /\ resp.status = ST_OK
    /\ \E id \in DOMAIN users :
           /\ users[id].email = "baru@mail.id"
           /\ users[id].full_name = N_Budi_S
           /\ users[id].phone = "0811"

\* a UUID new_v4 may return that no stored user has
FreshUserId == <<"u", MaxUsers + 1>>

\* the username or the email a new profile would get is already stored
Taken(usersT, request) ==
    \E id \in DOMAIN usersT :
        \/ usersT[id].username = DerivedUsername(request.nama)
        \/ usersT[id].email = request.email

\* C15: create_profil never rejects a request for lack of a valid identity
\* (no token, malformed token, token of a missing user, or an identity query
\* that fails): it goes on under a fresh id.  It then succeeds, adding one
\* user under that id and returning it, exactly when the derived username and
\* the email are not yet stored; otherwise it answers InternalError and
\* stores nothing.
C15_NoIdentityIsNeverUnauthorized ==
    \A headers \in Headers, request \in CreateProfilRequests, fail \in {0, 1} :
        (~ValidIdentity(headers, users) \/ fail = 1) =>
            LET r == create_profil(headers, request, users, fail, FreshUserId) IN
            /\ r.resp.status # ST_UNAUTHORIZED
            /\ IF Taken(users, request)
               THEN /\ r.resp.status = ST_INTERNAL
                    /\ r.users = users
               ELSE /\ r.resp.status = ST_OK
                    /\ r.resp.body.id = Uuid_to_string(FreshUserId)
                    /\ DOMAIN r.users = DOMAIN users \cup {FreshUserId}
                    /\ \A id \in DOMAIN users : r.users[id] = users[id]

\* beside a registered user, a request without identity has been given a
\* new user of its own
C15_Witness ==
    /\ resp.op = "create_profil"
    /\ resp.status = ST_OK
    /\ \E a, b \in DOMAIN users :
           /\ users[a].password_hash = "rahasia"
           /\ users[b].password_hash = "password123"

\* C15 as stated: without a valid identity create_profil succeeds under the
\* fresh id in every users table and for every nama, email and no_hp
C15_NoIdentityAlwaysSucceeds ==
    \A headers \in Headers, request \in CreateProfilRequests :
        ~ValidIdentity(headers, users) =>
            LET r == create_profil(headers, request, users, 0, FreshUserId) IN
            /\ r.resp.status = ST_OK
            /\ r.resp.body.id = Uuid_to_string(FreshUserId)

\* the id create_profil works under: the caller's, else the fresh one
ResolvedId(headers, usersT) ==
    IF ValidIdentity(headers, usersT)
    THEN CHOOSE id \in DOMAIN usersT : Presents(headers, id)
    ELSE FreshUserId

\* the names requests carry, lower-cased and without spaces
Spelled(nama) ==
    CASE nama = N_Bu_Di -> <<"b", "u", "d", "i">>
      [] nama = N_Citra -> <<"c", "i", "t", "r", "a">>

\* C16: a create_profil that storage accepts, under an id that is a stored
\* user, sets that user's name, email and phone to the submitted values and
\* changes nothing else (username, password, id, and the set of rows); under
\* an id that is no stored user it adds exactly one user with that id, the
\* submitted name, email and phone, the name lower-cased without spaces as
\* username, and the password "password123".  A refused one stores nothing.
C16_UpsertUpdatesOrInsertsOne ==
    \A headers \in Headers, request \in CreateProfilRequests :
        LET id == ResolvedId(headers, users)
            r == create_profil(headers, request, users, 0, FreshUserId)
        IN  IF r.resp.status # ST_OK THEN r.users = users /\ Taken(users, request)
            ELSE /\ \A other \in DOMAIN users \ {id} : r.users[other] = users[other]
                 /\ r.users[id].full_name = request.nama
                 /\ r.users[id].email = request.email
                 /\ r.users[id].phone = request.no_hp
                 /\ r.resp.body.id = Uuid_to_string(id)
                 /\ IF id \in DOMAIN users
                    THEN /\ DOMAIN r.users = DOMAIN users
                         /\ r.users[id].username = users[id].username
                         /\ r.users[id].password_hash = users[id].password_hash
                    ELSE /\ DOMAIN r.users = DOMAIN users \cup {id}
                         /\ r.users[id].username = Spelled(request.nama)
                         /\ r.users[id].password_hash = "password123"

\* a registered user has been renamed through create_profil and kept its
\* username and password, beside a user that create_profil inserted
C16_Witness ==
    /\ resp.op = "create_profil"
    /\ resp.status = ST_OK
    /\ \E a, b \in DOMAIN users :
           /\ users[a].full_name = N_Citra
           /\ users[a].username = U_ani
           /\ users[a].password_hash = "sandi"
           /\ users[b].full_name = N_Bu_Di
           /\ users[b].username = U_budi
           /\ users[b].password_hash = "password123"

\* get_profil and get_profil_by_user_id agree up to their names and messages
SameAnswer(a, b) ==
    /\ a.status = b.status
    /\ a.status = ST_OK => a.body = b.body

\* C17: without a valid identity get_my_profil, get_profil,
\* get_profil_by_user_id, update_profil, delete_profil and list_profils answer
\* Unauthorized and leave users (and orders) unchanged.  With a valid
\* identity the handlers that take a target id act on that id whoever the
\* caller is: they read, edit or delete the user of that id, and the result
\* is the same for every stored user's token.
C17_ProfilsNeedIdentityNotOwnership ==
    \A headers \in Headers :
        IF ~ValidIdentity(headers, users)
        THEN /\ get_my_profil(headers, users, 0).status = ST_UNAUTHORIZED
             /\ list_profils(headers, users, 0).status = ST_UNAUTHORIZED
             /\ \A id \in ProfilPaths :
                    /\ get_profil(headers, id, users, 0).status = ST_UNAUTHORIZED
                    /\ get_profil_by_user_id(headers, id, users, 0).status
                           = ST_UNAUTHORIZED
                    /\ \A request \in UpdateProfilRequests :
                           update_profil(headers, id, request, users, 0)
                               = [resp |-> Error("update_profil", ST_UNAUTHORIZED,
                                                 <<"Authentication required">>),
                                  users |-> users]
                    /\ \A fk \in FkOnDelete :
                           delete_profil(headers, id, users, orders, 0, fk)
                               = [resp |-> Error("delete_profil", ST_UNAUTHORIZED,
                                                 <<"Authentication required">>),
                                  users |-> users, orders |-> orders]
        ELSE /\ get_my_profil(headers, users, 0).status = ST_OK
             /\ Presents(headers,
                         Uuid_parse_str(get_my_profil(headers, users, 0).body.id).v)
             /\ list_profils(headers, users, 0).status = ST_OK
             /\ list_profils(headers, users, 0).body.total = Cardinality(DOMAIN users)
             /\ \A target \in DOMAIN users : \A owner \in {BearerFor(target)} :
                    LET id == Uuid_to_string(target)
                        one == get_profil(headers, id, users, 0)
                    IN  /\ one = get_profil(owner, id, users, 0)
                        /\ one.status = ST_OK
                        /\ one.body.id = id
                        /\ one.body.email = users[target].email
                        /\ SameAnswer(get_profil_by_user_id(headers, id, users, 0), one)
                        /\ \A request \in UpdateProfilRequests :
                               LET upd == update_profil(headers, id, request, users, 0) IN
                               /\ upd = update_profil(owner, id, request, users, 0)
                               /\ upd.resp.status \in {ST_OK, ST_INTERNAL}
                               /\ upd.resp.status = ST_OK =>
                                      /\ upd.resp.body.id = id
                                      /\ upd.users[target]
                                             = MergedProfil(users[target], request)
                        /\ \A fk \in FkOnDelete :
                               LET del == delete_profil(headers, id, users, orders, 0, fk) IN
                               /\ del = delete_profil(owner, id, users, orders, 0, fk)
                               /\ del.resp.status \in {ST_OK, ST_INTERNAL}
                               /\ del.resp.status = ST_OK =>
                                      DOMAIN del.users = DOMAIN users \ {target}

\* a valid caller has read the profile of another user
C17_Witness ==
    /\ resp.op = "get_profil"
    /\ resp.status = ST_OK
    /\ ~resp.own
    /\ Cardinality(DOMAIN users) = 2

\* C18: login answers OK exactly when a stored user has the submitted
\* username and the submitted password, both compared as exact text; the
\* token is then "dummy_token_for_" followed by that user's id as text;
\* otherwise the answer is Unauthorized.  A step that answers a login leaves
\* users, orders and motors as they were.
C18_LoginNeedsExactMatch ==
    /\ [](\A payload \in LoginRequests :
             LET r == login(payload, users, TRUE) IN
             IF \E id \in DOMAIN users :
                    /\ users[id].username = payload.username
                    /\ users[id].password_hash = payload.password
             THEN /\ r.status = ST_OK
                  /\ r.body.token.prefix = "dummy_token_for_"
                  /\ \E id \in DOMAIN users :
                         /\ r.body.token.rest = Uuid_to_string(id)
                         /\ users[id].username = payload.username
                         /\ users[id].password_hash = payload.password
             ELSE r.status = ST_UNAUTHORIZED)
    /\ [][resp'.op = "login" => UNCHANGED <<users, orders, motors>>]_vars

\* a login has succeeded while another user with another password is stored
C18_Witness ==
    /\ resp.op = "login"
    /\ resp.status = ST_OK
    /\ \E a, b \in DOMAIN users :
           users[a].password_hash = "rahasia" /\ users[b].password_hash = "password123"

\* C19: register answers Created after adding exactly one user under a fresh
\* id with the password as submitted; it answers Conflict and adds nothing
\* when the username or the email is already stored; and a storage failure
\* that is no uniqueness violation is answered InternalError, not Conflict.
C19_RegisterCreatedConflictOrInternal ==
    \A payload \in RegisterRequests, dbOk \in BOOLEAN :
        LET r == register(payload, users, FreshUserId, dbOk)
            taken == \E id \in DOMAIN users :
                         \/ users[id].username = payload.username
                         \/ users[id].email = payload.email
        IN  IF taken
            THEN r.resp.status = ST_CONFLICT /\ r.users = users
            ELSE IF ~dbOk
            THEN r.resp.status = ST_INTERNAL /\ r.users = users
            ELSE /\ r.resp.status = ST_CREATED
                 /\ DOMAIN r.users = DOMAIN users \cup {FreshUserId}
                 /\ \A id \in DOMAIN users : r.users[id] = users[id]
                 /\ r.users[FreshUserId].password_hash = payload.password
                 /\ r.users[FreshUserId].username = payload.username

\* C20: in every state reached by register, create_profil, create_booking,
\* update_booking, delete_booking and delete_profil, the user_id of every
\* stored order is the id of a stored user.
C20_OrdersReferenceStoredUsers ==
    \A order_id \in DOMAIN orders : orders[order_id].user_id \in DOMAIN users

\* a user's profile has been deleted and an order of it is gone, while a
\* stored order of the remaining user names a motor that no stored motor has
C20_Witness ==
    /\ resp.op = "delete_profil"
    /\ resp.status = ST_OK
    /\ (UserIds \cap usedIds) \ DOMAIN users # {}
    /\ (OrderIds \cap usedIds) \ DOMAIN orders # {}
    /\ \E order_id \in DOMAIN orders :
           /\ orders[order_id].user_id \in DOMAIN users
           /\ \A motor_id \in DOMAIN motors :
                  motors[motor_id].motor_name # orders[order_id].pilih_motor

\* C21: GET /api/orders/all checks no identity: with storage up its answer is
\* the same for no Authorization header, for every malformed or stale token
\* and for every valid one, and it lists every stored order exactly once with
\* its owner's username, later booking date and time first.
C21_ListAllIgnoresIdentity ==
    \A headers \in Headers, tie \in TieBreaks :
        LET r == orders_all_route(headers, users, orders, TRUE, tie) IN
        /\ r = orders_all_route(None, users, orders, TRUE, tie)
        /\ r.status = ST_OK
        /\ r.body.total = Cardinality(DOMAIN orders)
        /\ Len(r.body.data) = Cardinality(DOMAIN orders)
        /\ \A order_id \in DOMAIN orders :
               \E i \in DOMAIN r.body.data :
                   /\ r.body.data[i].row.id = order_id
                   /\ r.body.data[i].row.user_id = orders[order_id].user_id
                   /\ r.body.data[i].username = users[orders[order_id].user_id].username
        /\ \A i, j \in DOMAIN r.body.data :
               i < j =>
                   LET a == r.body.data[i].row
                       b == r.body.data[j].row
                   IN  \/ a.tanggalBooking > b.tanggalBooking
                       \/ /\ a.tanggalBooking = b.tanggalBooking
                          /\ a.waktuBooking >= b.waktuBooking

\* all bookings have been listed while two users own bookings made at
\* different times
C21_Witness ==
    /\ resp.op = "list_all_bookings"
    /\ resp.status = ST_OK
    /\ \E a, b \in DOMAIN orders :
           /\ orders[a].user_id # orders[b].user_id
           /\ orders[a].waktu_booking # orders[b].waktu_booking

\* C22: startup makes attempts 1, 2, ... in order and at most 5 of them, has
\* slept 2 seconds for each failed attempt, leaves the loop at the first
\* success, and panics when all 5 failed; requests are handled only once an
\* attempt has succeeded; once the process serves or has panicked the
\* connection phase never runs again; and the connection phase always ends.
C22_StartupConnectsAtMostFiveTimes ==
    /\ [](/\ boot.attempt \in 1..5
          /\ boot.pc \in {"connect", "sleep"} =>
                 ~boot.pool /\ boot.slept = 2 * (boot.attempt - 1)
          /\ boot.pc = "serve" => boot.pool /\ boot.slept = 2 * (boot.attempt - 1)
          /\ boot.pc = "panic" => ~boot.pool /\ boot.attempt = 5 /\ boot.slept = 10
          /\ boot.pc # "serve" => users = Empty /\ resp.op = "none")
    /\ [][/\ boot'.attempt \in {boot.attempt, boot.attempt + 1}
          /\ boot.pool => boot'.attempt = boot.attempt
          /\ <<users, resp>>' # <<users, resp>> => boot.pc = "serve"
          /\ boot.pc \in {"serve", "panic"} => boot' = boot]_vars
    /\ <>(boot.pc \in {"serve", "panic"})

\* a registration has been served by a process whose third attempt succeeded
C22_Witness ==
    /\ boot.pc = "serve"
    /\ boot.attempt = 3
    /\ boot.slept = 4
    /\ resp.op = "register"
    /\ resp.status = ST_CREATED

\* the stored motors a query asks for
Wanted(params, motorsT) ==
    {id \in DOMAIN motorsT :
        /\ params.motor_type = None \/ motorsT[id].motor_type = params.motor_type.v
        /\ params.available_only = Some(TRUE) => motorsT[id].available = Some(TRUE)}

\* the page and the limit a query of PagedQueries asks for
PageAsked(params) == IF params.page = None THEN 1 ELSE params.page.v

LimitAsked(params) == IF params.limit = None THEN 10 ELSE params.limit.v

\* items are the ids at positions offset .. offset+limit-1 of ids in
\* ascending order
IsPage(items, ids, limit, offset) ==
    /\ \A i, j \in DOMAIN items : i < j => items[i] < items[j]
    /\ \A id \in ids :
           LET rank == Cardinality({m \in ids : m < id}) IN
           (\E i \in DOMAIN items : items[i] = id)
               <=> (offset <= rank /\ rank < offset + limit)
    /\ \A i \in DOMAIN items : items[i] \in ids

\* the number of items a page holds when total rows match
ItemsFor(total, limit, offset) ==
    IF total <= offset THEN 0
    ELSE IF total - offset < limit THEN total - offset ELSE limit

C24_OffsetNeverOverflows ==
    \A params \in MotorQueries, build \in Builds :
        LET page == ClampPage(params.page)
            limit == ClampLimit(params.limit)
            product == MulI32(page - 1, limit)
        IN  /\ limit \in 1..100
            /\ list_motors(params, motors, 0, build).status = ST_OK
            /\ ~product.overflow
            /\ product.wrapped >= 0
            /\ product.wrapped \div limit = page - 1
            /\ product.wrapped % limit = 0

\* C25: with requests running concurrently, the UPDATE of an update_profil
\* never changes the stored value of a field its request did not supply, even
\* when another update of the same user committed after its SELECT.
C25_ConcurrentUpdateKeepsOmittedFields ==
    [][\A t \in DOMAIN tasks \ DOMAIN tasks' :
          tasks[t].pc = "write" =>
              \A id \in {tasks[t].user_id} \cap DOMAIN users \cap DOMAIN users' :
                  /\ ~tasks[t].request.nama.some =>
                         users'[id].full_name = users[id].full_name
                  /\ ~tasks[t].request.email.some =>
                         users'[id].email = users[id].email
                  /\ ~tasks[t].request.no_hp.some =>
                         users'[id].phone = users[id].phone]_vars

\* C29: when the caller's user row has been deleted after create_booking
\* resolved the caller and before its INSERT runs, the INSERT stores no order
\* and the request is answered InternalError, not Unauthorized; and no order
\* is ever stored whose owner is no stored user.
C29_InsertAfterOwnerDeleted ==
    /\ [](\A order_id \in DOMAIN orders : orders[order_id].user_id \in DOMAIN users)
    /\ [][\A t \in DOMAIN tasks \ DOMAIN tasks' :
             (tasks[t].pc = "insert" /\ tasks[t].user_id \notin DOMAIN users) =>
                 /\ orders' = orders
                 /\ resp'.op = "create_booking"
                 /\ resp'.status = ST_INTERNAL]_vars

\* storage has refused the booking of a user deleted in the meantime, while
\* the booking of another user is stored
C29_Witness ==
    /\ resp.op = "create_booking"
    /\ resp.status = ST_INTERNAL
    /\ resp.error = <<"Database error: ", "violates foreign key constraint">>
    /\ (UserIds \cap usedIds) \ DOMAIN users # {}
    /\ orders # Empty

\* a client logs in and keeps the token it was given; user is the row that
\* bore the username at that moment
LoginKeep ==
    \E t \in TaskIds, payload \in SentLoginRequests, dbOk \in BOOLEAN :
        \E r \in {login(payload, users, dbOk)} :
            /\ resp' = Line(r)
            /\ tasks' = IF r.status = ST_OK
                         THEN (t :> [pc |-> "holds",
                                     user |-> CHOOSE id \in DOMAIN users :
                                                  users[id].username = payload.username,
                                     token |-> r.body.token])
                              @@ tasks
                         ELSE tasks
            /\ UNCHANGED <<boot, users, orders, usedIds, clock, motorVars>>

\* users log in, profiles are edited, saved and deleted while the tokens are
\* out
NextToken ==
    \/ RowsLeft /\ Register
    \/ LoginKeep
    \/ UpdateProfilOf(EmailUpdateRequests)
    \/ RowsLeft /\ CreateProfilOf(CitraRequests)
    \/ DeleteProfil

SpecToken == Init /\ [][NextToken]_vars

\* the identity a kept token resolves to
Resolved(t) ==
    get_user_from_token(Header(TRUE, "Bearer ", tasks[t].token.prefix,
                               tasks[t].token.rest), users, TRUE)

\* C28: the token a successful login of user u returned, sent as
\* "Authorization: Bearer <token>", resolves to u's id in every later state in
\* which u's row exists, whatever profile saves happened in between (no step
\* changes the id, username or password of a row that stays), and to
\* Unauthorized in every state after u was deleted.
C28_TokenRoundTrip ==
    /\ [](\A t \in DOMAIN tasks :
              tasks[t].pc = "holds"
                  => Resolved(t) = IF tasks[t].user \in DOMAIN users
                                   THEN Ok(tasks[t].user)
                                   ELSE Err(ST_UNAUTHORIZED))
    /\ [][\A u \in DOMAIN users \cap DOMAIN users' :
              /\ users'[u].username = users[u].username
              /\ users'[u].password_hash = users[u].password_hash]_vars

\* one kept token belongs to a deleted user, another to a user whose profile
\* was edited after the login
C28_Witness ==
    \E t \in DOMAIN tasks, s \in DOMAIN tasks :
        /\ tasks[t].pc = "holds" /\ tasks[t].user \notin DOMAIN users
        /\ tasks[s].pc = "holds" /\ tasks[s].user \in DOMAIN users
        /\ users[tasks[s].user].email = "baru@mail.id"

\* a client books and keeps the reference the response gave it
CreateBookingKeepOf(payloads) ==
    \E t \in TaskIds \ DOMAIN tasks, headers \in SentHeaders, payload \in payloads,
       ms \in MsMods :
        \E order_id \in {IF OrderIds \ usedIds = {} THEN <<"o", 0>>
                          ELSE NewUuid(OrderIds)} :
        \E r \in {create_booking(headers, payload, users, orders, clock,
                                 0, order_id, ms)} :
            /\ r.gen => OrderIds \ usedIds # {}
            /\ orders' = r.orders
            /\ resp' = Line(r.resp)
            /\ usedIds' = usedIds \cup DOMAIN r.orders
            /\ tasks' = IF r.resp.status = ST_OK
                         THEN (t :> [pc |-> "booked", order_id |-> order_id,
                                     booking_id |-> r.resp.body.booking_id])
                              @@ tasks
                         ELSE tasks
            /\ UNCHANGED <<boot, users, clock, motorVars>>

\* bookings are made with and without a reference of the client's, at
\* different times
NextReference ==
    \/ Tick
    \/ Register
    \/ CreateBookingKeepOf(ReferencePayloads)

SpecReference == Init /\ [][NextReference]_vars

\* the bookingId the two lists report for an order id
ListedReference(id) == [prefix |-> "BWK", take |-> 6, of |-> Uuid_to_string(id)]

\* C30: create_booking never stores its booking reference. Two calls that
\* differ only in the payload's bookingId (given, or left out and made of
\* "BWK" and the milliseconds modulo 1,000,000) leave the same orders table
\* while returning different references; for every stored order list_bookings
\* and list_all_bookings report "BWK" + the first six characters of the order
\* id, and get_booking reports the id it was asked for, whatever reference
\* create_booking returned for the order.
C30_BookingReferenceNeverStored ==
    /\ \A u \in DOMAIN users, ms \in MsMods, other \in MsMods :
           \A order_id \in {IF OrderIds \ usedIds = {} THEN <<"o", 0>>
                             ELSE NewUuid(OrderIds)} :
           LET given == create_booking(BearerFor(u), [BasePayload EXCEPT
                            !.bookingId = Str(<<"BWK", "7", "7">>)],
                            users, orders, clock, 0, order_id, ms)
               omitted == create_booking(BearerFor(u), BasePayload, users, orders,
                                         clock, 0, order_id, other)
           IN  /\ given.resp.status = ST_OK /\ omitted.resp.status = ST_OK
               /\ given.resp.body.booking_id = <<"BWK", "7", "7">>
               /\ omitted.resp.body.booking_id = <<"BWK">> \o Decimal(other)
               /\ given.orders = omitted.orders
    /\ \A id \in DOMAIN orders, tie \in SentTieBreaks :
           LET own == list_bookings(BearerFor(orders[id].user_id), users, orders,
                                    0, tie).body.data
               all == list_all_bookings(users, orders, TRUE, tie).body.data
           IN  /\ \E i \in DOMAIN own :
                      own[i].id = id /\ own[i].bookingId = ListedReference(id)
               /\ \E i \in DOMAIN all :
                      all[i].row.id = id /\ all[i].row.bookingId = ListedReference(id)
               /\ \A path \in {q \in OrderPaths : Uuid_parse_str(q) = Ok(id)} :
                      get_booking(path, orders, TRUE).body.bookingId = path
    /\ \A t \in DOMAIN tasks :
           tasks[t].pc = "booked" => tasks[t].order_id \in DOMAIN orders

\* two orders that differ in nothing but their ids and the references the
\* responses gave, one the client's own and one generated
C30_Witness ==
    \E s \in DOMAIN tasks, t \in DOMAIN tasks :
        /\ tasks[s].pc = "booked" /\ tasks[t].pc = "booked"
        /\ tasks[s].booking_id = <<"BWK", "7", "7">>
        /\ tasks[t].booking_id = <<"BWK">> \o Decimal(999999)
        /\ orders[tasks[s].order_id] = orders[tasks[t].order_id]
        /\ Cardinality({q \in OrderPaths :
                            Uuid_parse_str(q) = Ok(tasks[s].order_id)}) > 1

\* the response carries text of the storage layer's error
Leaks(r) ==
    \E i \in DOMAIN r.error :
        r.error[i] \in {"sqlx::Error", "violates foreign key constraint"}

\* InternalError with a message of the handler's own
Generic(r) == r.status = ST_INTERNAL /\ ~Leaks(r)

\* the handlers other than create_motor, create_booking and register answer a
\* storage failure with a generic InternalError
OthersAreGeneric ==
    /\ \A id \in {Uuid_to_string(o) : o \in OrderIds} :
           /\ Generic(get_booking(id, orders, FALSE))
           /\ Generic(update_booking(id, Str(<<"confirmed">>), orders, FALSE).resp)
           /\ Generic(delete_booking(id, orders, FALSE).resp)
    /\ Generic(list_all_bookings(users, orders, FALSE, SomeTie))
    /\ \A id \in MotorPaths :
           /\ Generic(get_motor(id, motors, FALSE))
           /\ Generic(update_motor(id, [NoUpdate EXCEPT !.available = Some(FALSE)],
                                   motors, FALSE).resp)
           /\ Generic(delete_motor(id, motors, FALSE).resp)
    /\ \A fail \in {1, 2} :
           Generic(list_motors(CHOOSE q \in PagedQueries : TRUE, motors, fail, "release"))
    /\ \A u \in DOMAIN users, request \in CreateProfilRequests :
           /\ Generic(list_bookings(BearerFor(u), users, orders, 2, SomeTie))
           /\ Generic(get_my_profil(BearerFor(u), users, 2))
           /\ Generic(get_profil(BearerFor(u), Uuid_to_string(u), users, 2))
           /\ Generic(list_profils(BearerFor(u), users, 2))
           /\ Generic(delete_profil(BearerFor(u), Uuid_to_string(u), users, orders,
                                    2, "CASCADE").resp)
           /\ Generic(update_profil(BearerFor(u), Uuid_to_string(u),
                                    [nama |-> None, email |-> None, no_hp |-> None],
                                    users, 3).resp)
           /\ \A fail \in {2, 3} :
                  Generic(create_profil(BearerFor(u), request, users, fail,
                                        FreshUserId).resp)

\* C26: on a storage failure every handler answers InternalError with a
\* generic message that carries no text of the storage error, except
\* create_motor, whose response carries it; in particular create_booking and
\* register do not return it.
C26_OnlyMotorCreateLeaksStorageError ==
    /\ OthersAreGeneric
    /\ \A payload \in SentCreateMotorRequests :
           LET r == create_motor(payload, motors, motorSeq, FALSE, FALSE).resp IN
           r.status = ST_INTERNAL /\ Leaks(r)
    /\ \A payload \in RegisterRequests :
           ~Leaks(register(payload, users, FreshUserId, FALSE).resp)
    /\ \A u \in DOMAIN users :
           Generic(create_booking(BearerFor(u), BasePayload, users, orders, clock,
                                  2, FreshOrderId, 42).resp)

\* C27: create_profil takes its identity first from the body's user_id, then
\* from the token, then a new id: a request that carries a body user_id does
\* not act on the identity of its token, whose row stays as it was.
C27_BodyUserIdTakesPriority ==
    \A u \in DOMAIN users, request \in CreateProfilRequests :
        LET r == create_profil(BearerFor(u), request, users, 0, FreshUserId) IN
        (request.user_id # None /\ r.resp.status = ST_OK)
            => /\ ChosenUserId(request, Ok(u), FreshUserId) # u
               /\ r.users[u] = users[u]

====
